---- MODULE Spec2Model ----
(***************************************************************************)
(* The scroll-synchronised canvas sequence of the landing page             *)
(* (initFarViewSequence, src/unnamed/part_001 lines 765-1193) as a state   *)
(* machine: the closure's state object, the DOM nodes it writes, the       *)
(* browser's frame and timer queues, and one action per handler.           *)
(*                                                                         *)
(* Numbers.  JavaScript numbers in [0,1] (progress, opacities) are         *)
(* fixed-point integers in units of 1/SCALE; every literal of the source   *)
(* (0.00035, 0.0005, 0.006, 0.028, the caption windows, 0.992, 1.6) is a   *)
(* whole number of units.  A product or quotient is rounded to the nearest *)
(* unit, as IEEE arithmetic rounds to the nearest double.  Pixels are      *)
(* whole numbers.                                                          *)
(***************************************************************************)
EXTENDS Integers, Sequences, FiniteSets, TLC

VARIABLES
    pc,              \* "start" before initFarViewSequence() ran, "done" after it returned
    present,         \* the DOM anchors (and the 2-D context) that exist
    reduced,         \* PREFERS_REDUCED_MOTION
    top,             \* root.getBoundingClientRect().top, in px
    vp,              \* index of the current viewport size (see InnerHeight, StageWidth ...)
    listeners,       \* window event listeners registered by the component
    timeout,         \* the debounce timer of onResize: NULL or TIMER (pending)
    pendingFrames,   \* number of render callbacks in the browser's animation-frame queue
    width, height, dpr,            \* state.width, state.height, state.dpr
    rafId,                         \* state.rafId: NULL or RAF (a handle)
    progress, targetProgress,      \* state.progress, state.targetProgress
    lastLineText,                  \* state.lastLineText
    field, planes, resolve,        \* state.field, state.planes, state.resolve
    dom,             \* what the component wrote to lineEl, kickerEl and finalEl
    canvas,          \* canvas.width/height and the frame last painted by draw()
    thrown,          \* TRUE once a handler raised a TypeError (a property of a missing node)
    calls,           \* the calls made by the handler that ran last, in order
    wcu,             \* the Why-Choose-Us section: its closure, its style and its scroll position
    terminal,        \* the terminal: its closure, its input and its output
    hss,             \* the Human-Simple-Scalable section: its closure, classes and listeners
    veins,           \* the vein field: the TerminalVeinField object and its frame loop
    carousel,        \* the testimonial carousel: the closure of initSignalScan and its elements
    rail,            \* the services rail: the closure of initServicesRail, its triggers and panels
    startup,         \* the startup: boot(), the loader promise and the calls of init()
    hero             \* the hero scroll video: the state object of initHeroScrollVideo and the two videos

\* the variables of the scroll sequence
viewVars == << pc, present, reduced, top, vp, listeners, timeout, pendingFrames,
               width, height, dpr, rafId, progress, targetProgress, lastLineText,
               field, planes, resolve, dom, canvas, thrown, calls >>
\* the variables of the other components
otherVars == << wcu, terminal, hss, veins, carousel, rail, startup, hero >>

vars == << viewVars, otherVars >>

envVars   == << top, vp >>
geomVars  == << width, height, dpr, field, planes, resolve >>
paintVars == << lastLineText, dom, canvas >>

----------------------------------------------------------------------------
(* Bounds of the model *)

\* the page is scrolled by 0 .. MaxScroll px past the top of the root
MaxScroll == 3
\* viewport sizes 0 .. MaxViewport
MaxViewport == 1
\* sampled targets are the multiples of 1/GridSteps in [0,1]
GridSteps == 8

----------------------------------------------------------------------------
(* Fixed-point arithmetic *)

SCALE == 20 * 1000
ONE   == SCALE
NULL  == "null"
RAF   == "raf"
TIMER == "timer"
UNSET == "unset"

\* sequencing: the value x is computed once and handed to the rest F
Then(x, F(_)) == CHOOSE r \in { F(y) : y \in { x } } : TRUE

Abs(x) == IF x < 0 THEN -x ELSE x
Max(a, b) == IF a >= b THEN a ELSE b
Min(a, b) == IF a <= b THEN a ELSE b

\* n / d rounded to the nearest integer (ties away from zero), d > 0
RoundDiv(n, d) == IF n >= 0 THEN (2 * n + d) \div (2 * d)
                            ELSE -((2 * (-n) + d) \div (2 * d))
\* the product of two fixed-point numbers
Mul(a, b) == RoundDiv(a * b, SCALE)
\* Math.floor of a quotient of integers, d > 0
FloorDiv(n, d) == n \div d

clamp(value, min, max) == Then(value, LAMBDA v : Max(min, Min(max, v)))

----------------------------------------------------------------------------
(* The environment: viewport sizes and scroll positions *)

Viewports == 0 .. MaxViewport
\* three more layouts: a root shorter than the viewport, a window that
\* reports no innerHeight, and a root of 2000 px in a viewport of 1000 px
ShortRoot   == 0 - 1
NoInner     == 0 - 2
ExampleRoot == 0 - 3
WideViewports == Viewports \cup { ShortRoot, NoInner, ExampleRoot }
\* sampled stage sizes, in tenths of a pixel, and sampled numbers of text
\* pixels the rasterised text covers on the sampling grid; a sample layout is
\* one width, one height and one number of text pixels
SampleWidths  == << 0, 5, 3200, 6999, 7000, 12800, 19200, 25609 >>
SampleHeights == << 0, 4805, 9000, 14407 >>
SamplePixels  == << 0, 1, 519, 520, 521, 759, 760, 761, 1040, 1041,
                    1519, 1520, 1521, 2281, 6000 >>
FirstSample   == 10 * 10
SampleCount   == Len(SampleWidths) * Len(SampleHeights) * Len(SamplePixels)
SizeLayouts   == { FirstSample + k : k \in 0 .. SampleCount - 1 }
IsSample(v)   == v >= FirstSample
SampleWidth(v)  == SampleWidths[((v - FirstSample) \div (Len(SamplePixels) * Len(SampleHeights))) + 1]
SampleHeight(v) == SampleHeights[(((v - FirstSample) \div Len(SamplePixels)) % Len(SampleHeights)) + 1]
SamplePixel(v)  == SamplePixels[((v - FirstSample) % Len(SamplePixels)) + 1]
\* the sample layout k places after v, cyclically
Shift(v, k) == FirstSample + ((v - FirstSample + k) % SampleCount)

\* window.innerHeight of viewport v
InnerHeight(v) ==
    CASE IsSample(v)     -> 800
      [] v = ShortRoot   -> 1200
      [] v = NoInner     -> 0
      [] v = ExampleRoot -> 1000
      [] OTHER           -> 900 + 100 * v
\* root.offsetHeight in viewport v (taller than the viewport but for ShortRoot)
OffsetHeight(v) ==
    CASE IsSample(v)     -> 4800
      [] v = ShortRoot   -> 600
      [] v = ExampleRoot -> 2000
      [] OTHER           -> 5900 - 900 * v
\* stage.getBoundingClientRect() in viewport v, in tenths of a pixel (the
\* stage fills the viewport)
StageWidth(v)  == IF IsSample(v) THEN SampleWidth(v) ELSE Max(0, 19200 - 6400 * v)
StageHeight(v) == IF IsSample(v) THEN SampleHeight(v) ELSE 10 * InnerHeight(v)
\* window.devicePixelRatio in viewport v, fixed-point (1, 2, 3 ...; 0, 0.5,
\* 1, 1.5 in the sample layouts)
DevicePixelRatio(v) == IF IsSample(v) THEN ((v % 4) * ONE) \div 2 ELSE Max(0, v + 1) * ONE
\* the number of points of the sampling grid that the text 'THE FAR VIEW'
\* covers with alpha above 50 when rasterised in viewport v, if the grid has
\* that many points
TextPixels(v) == IF IsSample(v) THEN SamplePixel(v) ELSE Max(0, 90 - 20 * v)
\* rect.top of the root when the page is scrolled k px past the root's top
Tops == { -k : k \in 0 .. MaxScroll }
\* a wider sample: the root far below and far above the viewport, and
\* scroll positions a quarter of a viewport apart
FarBelow == 50 * 1000
FarAbove == 0 - 50 * 1000
WideTops == Tops \cup { FarBelow, FarAbove } \cup { -(250 * k) : k \in 0 .. GridSteps }

Anchors == { "root", "stage", "canvas", "lineEl", "kickerEl", "finalEl", "ctx", "offctx" }
Required == Anchors \ { "offctx" }

----------------------------------------------------------------------------
(* Program constants, in units of 1/SCALE *)

MAX_DPR   == (16 * SCALE) \div 10
MAX_STEP  == (6 * SCALE) \div 1000
EASE_PCT  == 22
EPS       == (35 * SCALE) \div (100 * 1000)
THRESHOLD == (5 * SCALE) \div (10 * 1000)
FADE      == (28 * SCALE) \div 1000
\* a literal written in thousandths
Lit(n) == (n * SCALE) \div 1000

statements ==
    << [start |-> Lit(30),  end |-> Lit(130), text |-> "Technology should make life better, not more complicated."],
       [start |-> Lit(130), end |-> Lit(230), text |-> "Work should feel lighter, not louder."],
       [start |-> Lit(230), end |-> Lit(330), text |-> "Systems should support people, not demand attention."],
       [start |-> Lit(380), end |-> Lit(450), text |-> "But most software does the opposite."],
       [start |-> Lit(450), end |-> Lit(515), text |-> "It fragments attention."],
       [start |-> Lit(515), end |-> Lit(580), text |-> "It adds noise."],
       [start |-> Lit(620), end |-> Lit(760), text |-> "We make software that gets software out of the way."] >>

----------------------------------------------------------------------------
(* Pure helpers of the closure *)

\* t * t * (3 - 2 * t)
smoothstep(t) == Then(t, LAMBDA x : Then(Mul(x, x), LAMBDA xx : Mul(xx, 3 * ONE - 2 * x)))

norm(p, a, b) == IF a = b THEN 0 ELSE clamp(RoundDiv((p - a) * SCALE, b - a), 0, ONE)

\* String(x) of a number in [0,1]: its decimal digits, trailing zeros dropped
Digit(d) == <<"0", "1", "2", "3", "4", "5", "6", "7", "8", "9">>[d + 1]
RECURSIVE Fraction(_, _)
Fraction(f, unit) ==
    IF f = 0 \/ unit = 0 THEN ""
    ELSE Digit(f \div unit) \o Fraction(f % unit, unit \div 10)
String(x) ==
    Then((x * 100 * 1000) \div SCALE, LAMBDA scaled :   \* five decimals
         LET int  == scaled \div (100 * 1000)
             frac == scaled % (100 * 1000)
         IN  IF frac = 0 THEN Digit(int)
             ELSE Digit(int) \o "." \o Fraction(frac, 10 * 1000))

\* x.toFixed(2) of a number in [0,10] given in units of 1/SCALE
ToFixed2(x) ==
    Then(RoundDiv(x * 100, SCALE), LAMBDA c :
         (IF c >= 1000 THEN Digit(c \div 1000) ELSE "")
         \o Digit((c \div 100) % 10) \o "." \o Digit((c \div 10) % 10) \o Digit(c % 10))

----------------------------------------------------------------------------
(* Geometry built by resize() *)

\* buildField without the upper limit of 260
buildFieldUncapped(w, h) ==
    [ count  |-> Max(140, FloorDiv(w * h, 9000)),
      width  |-> w,
      height |-> h ]

\* buildField: the dots are a pure function of their index and of the size,
\* so the field is named by its length and the size it was laid out for
buildField(w, h) ==
    [ count  |-> Max(140, Min(260, FloorDiv(w * h, 9000))),
      width  |-> w,
      height |-> h ]

\* the five normalized rectangles, in hundredths
PlaneRects == << [x |-> 18, y |-> 22, w |-> 58, h |-> 28],
                 [x |-> 62, y |-> 58, w |-> 54, h |-> 24],
                 [x |-> 28, y |-> 68, w |-> 48, h |-> 22],
                 [x |-> 72, y |-> 28, w |-> 46, h |-> 20],
                 [x |-> 48, y |-> 42, w |-> 66, h |-> 32] >>

\* buildPlanes: px, py, pw, ph in hundredths of a pixel
buildPlanes(w, h) ==
    [ i \in 1 .. Len(PlaneRects) |->
        [ px |-> PlaneRects[i].x * w, py |-> PlaneRects[i].y * h,
          pw |-> PlaneRects[i].w * w, ph |-> PlaneRects[i].h * h ] ]

\* state.resolve before the first resize()
NoResolve == [ offscreen |-> NULL, offctx |-> NULL, w |-> 0, h |-> 0,
               width |-> 0, height |-> 0, fontSize |-> 0, step |-> 0, cap |-> 0,
               samples |-> 0, targets |-> [count |-> 0, every |-> 1],
               particles |-> [count |-> 0, width |-> 0, height |-> 0] ]

\* Math.ceil of a quotient of integers, n >= 0, d > 0
CeilDiv(n, d) == (n + d - 1) \div d

\* the divisor of the trimming with Math.floor in place of Math.ceil
StrideFloor(n, cap) == IF n > cap THEN Max(1, FloorDiv(n, cap)) ELSE 1

\* the divisor of the trimming: Math.ceil(n / cap) when n > cap; no trimming
\* otherwise, which is a divisor of 1
Stride(n, cap) == IF n > cap THEN CeilDiv(n, cap) ELSE 1

\* the indices, among n sampled targets, of those kept by
\* targets.filter((_, i) => i % Math.ceil(n / cap) === 0)
Trim(n, every) ==
    Then(n, LAMBDA len : Then(every, LAMBDA k : { i \in 0 .. len - 1 : i % k = 0 }))

\* buildResolveTargets: returns early, leaving state.resolve alone, when the
\* offscreen canvas gives no 2-D context; canvas and context are stored once
\* a context was given, and reused from then on.  lit is the number of text
\* pixels on the sampling grid.  The particles are a pure function of their
\* index, their target and the size, so they are named by their number and
\* the size they were laid out for; the targets are named by their number
\* and by the divisor of the indices kept.
buildResolveTargets(old, w0, h0, haveOffctx, lit) ==
    IF old.offctx = NULL /\ ~haveOffctx THEN old
    ELSE Then(<< w0, h0 >>, LAMBDA size :
         Then([ w    |-> size[1],
                h    |-> size[2],
                ow   |-> Max(1, FloorDiv(size[1] * 9, 10)),
                oh   |-> Max(1, FloorDiv(size[2] * 52, 100)),
                step |-> IF size[1] < 700 THEN 10 ELSE 8,
                cap  |-> IF size[1] < 700 THEN 520 ELSE 760 ], LAMBDA g :
         Then(Min(lit, CeilDiv(g.ow, g.step) * CeilDiv(g.oh, g.step)), LAMBDA n :
         Then(Stride(n, g.cap), LAMBDA every :
         Then(IF n > g.cap THEN Cardinality(Trim(n, every)) ELSE n, LAMBDA trimmed :
             [ offscreen |-> "offscreen",
               offctx    |-> "offctx",
               w         |-> g.ow,
               h         |-> g.oh,
               width     |-> g.w,
               height    |-> g.h,
               fontSize  |-> Max(40, Min(140, FloorDiv(g.w * 11, 100))),
               step      |-> g.step,
               cap       |-> g.cap,
               samples   |-> n,
               targets   |-> [count |-> trimmed, every |-> every],
               particles |-> [count |-> trimmed, width |-> g.w, height |-> g.h] ])))))

\* the calls by which buildResolveTargets gets its canvas and its context
\* when state.resolve holds none
Created(old) ==
    (IF old.offscreen = NULL THEN << [fn |-> "createElement", arg |-> 0 - 1] >> ELSE << >>)
    \o (IF old.offctx = NULL THEN << [fn |-> "getContext", arg |-> 0 - 1] >> ELSE << >>)

\* state.width / state.height: Math.max(1, Math.floor(...)) of the stage's
\* bounding rect
StateWidth(v)  == Max(1, FloorDiv(StageWidth(v), 10))
StateHeight(v) == Max(1, FloorDiv(StageHeight(v), 10))
\* state.dpr = Math.min(window.devicePixelRatio || 1, MAX_DPR)
StateDpr(v) == Min(IF DevicePixelRatio(v) = 0 THEN ONE ELSE DevicePixelRatio(v), MAX_DPR)
\* canvas.width / canvas.height = Math.max(1, Math.floor(size * dpr))
CanvasSize(size, ratio) == Max(1, FloorDiv(size * ratio, SCALE))

----------------------------------------------------------------------------
(* Scroll progress *)

\* getScrollProgress with the final clamp left out
getScrollProgressUnclamped(rectTop, offsetHeight, innerHeight, h) ==
    LET vh    == IF innerHeight # 0 THEN innerHeight ELSE IF h # 0 THEN h ELSE 1
        total == Max(1, offsetHeight - vh)
    IN  RoundDiv((-rectTop) * SCALE, total)

\* getScrollProgress dividing by the whole height of the root
getScrollProgressWholeRoot(rectTop, offsetHeight, innerHeight, h) ==
    clamp(RoundDiv((-rectTop) * SCALE, Max(1, offsetHeight)), 0, ONE)

\* getScrollProgress: top is rect.top of the root, h is state.height
getScrollProgress(rectTop, offsetHeight, innerHeight, h) ==
    LET vh    == IF innerHeight # 0 THEN innerHeight ELSE IF h # 0 THEN h ELSE 1
        total == Max(1, offsetHeight - vh)
        raw   == RoundDiv((-rectTop) * SCALE, total)
    IN  clamp(raw, 0, ONE)

\* the threshold test with <= in place of <
ScrollIgnoredInclusive(next, target) == Abs(next - target) <= THRESHOLD

\* onScroll returns without touching the state when this holds
ScrollIgnored(next, target) == Abs(next - target) < THRESHOLD

----------------------------------------------------------------------------
(* Overlay *)

\* index of the first statement whose window holds p, 0 when there is none
RECURSIVE ActiveFrom(_, _)
ActiveFrom(p, i) ==
    IF i > Len(statements) THEN 0
    ELSE IF p < statements[i].start \/ p > statements[i].end THEN ActiveFrom(p, i + 1)
    ELSE i
ActiveStatement(p) == ActiveFrom(p, 1)

\* the alpha of statement i at p without the fade-out factor
StatementAlphaNoFadeOut(p, i) ==
    clamp(smoothstep(norm(p, statements[i].start, statements[i].start + FADE)), 0, ONE)

\* the alpha of statement i at p
StatementAlpha(p, i) ==
    Then(smoothstep(norm(p, statements[i].start, statements[i].start + FADE)), LAMBDA ain :
    Then(ONE - smoothstep(norm(p, statements[i].end - FADE, statements[i].end)), LAMBDA aout :
         clamp(Mul(ain, aout), 0, ONE)))

kickerAlpha(p) ==
    Then(smoothstep(norm(p, Lit(760), Lit(820))), LAMBDA rise :
    Then(ONE - smoothstep(norm(p, Lit(992), Lit(1000))), LAMBDA fall : Mul(rise, fall)))

\* what lineEl, kickerEl and finalEl hold before the component writes them
NoDom == [ lineText |-> UNSET, lineOpacity |-> UNSET, lineTransform |-> UNSET,
           kickerOpacity |-> UNSET, finalOpacity |-> UNSET, reveal |-> UNSET ]

\* the caption line named by setOverlay(p): its text and its alpha
ActiveLine(p) ==
    Then(ActiveStatement(p), LAMBDA i :
         IF i # 0 THEN [text |-> statements[i].text, alpha |-> StatementAlpha(p, i)]
         ELSE [text |-> "", alpha |-> 0])

----------------------------------------------------------------------------
(* Render step *)

\* render() with an easing factor of 1.22 instead of 0.22
renderProgressOvershoot(p, target) ==
    LET delta == target - p
    IN  IF Abs(delta) <= EPS THEN target
        ELSE clamp(p + clamp(RoundDiv(delta * (100 + EASE_PCT), 100), -MAX_STEP, MAX_STEP),
                   0, ONE)

\* state.progress after one render()
renderProgress(p, target) ==
    Then(target - p, LAMBDA delta :
         IF Abs(delta) <= EPS THEN target
         ELSE LET eased == RoundDiv(delta * EASE_PCT, 100)
                  step  == clamp(eased, -MAX_STEP, MAX_STEP)
              IN  clamp(p + step, 0, ONE))

\* the re-schedule test against the scroll threshold instead of EPS
StillConvergingCoarse(p, target) == Abs(target - p) > THRESHOLD

\* the re-schedule test with the comparison always true
StillConvergingAlways(p, target) == Abs(target - p) >= 0

\* render() asks for another frame when this holds
StillConverging(p, target) == Abs(target - p) > EPS


----------------------------------------------------------------------------
(* The closure's state and the objects it writes, as one record *)

Cur ==
    [ width |-> width, height |-> height, dpr |-> dpr, rafId |-> rafId,
      progress |-> progress, targetProgress |-> targetProgress,
      lastLineText |-> lastLineText, planes |-> planes, field |-> field,
      resolve |-> resolve, dom |-> dom, canvas |-> canvas,
      pendingFrames |-> pendingFrames, timeout |-> timeout,
      listeners |-> listeners, thrown |-> thrown, have |-> present, calls |-> << >> ]

Set(s) ==
    /\ width' = s.width /\ height' = s.height /\ dpr' = s.dpr /\ rafId' = s.rafId
    /\ progress' = s.progress /\ targetProgress' = s.targetProgress
    /\ lastLineText' = s.lastLineText /\ planes' = s.planes /\ field' = s.field
    /\ resolve' = s.resolve /\ dom' = s.dom /\ canvas' = s.canvas
    /\ pendingFrames' = s.pendingFrames /\ timeout' = s.timeout
    /\ listeners' = s.listeners /\ thrown' = s.thrown /\ calls' = s.calls

NoArg == -1
Call(fn, arg) == [fn |-> fn, arg |-> arg]
Called(s, fn, arg) == [s EXCEPT !.calls = Append(@, Call(fn, arg))]
\* fn(arg) is called and reads properties of the nodes in uses
Using(s, fn, arg, uses) ==
    [ Called(s, fn, arg) EXCEPT !.thrown = @ \/ ~(uses \subseteq s.have) ]

NoFrame == [ p |-> NoArg, acts |-> << >>, width |-> 0, height |-> 0,
             field |-> buildField(0, 0), planes |-> << >>, resolve |-> NoResolve ]

----------------------------------------------------------------------------
(* The functions of the closure, each from the state before to the state after *)

\* resize() without the call of buildField()
resizeKeepingField(s, v, haveOffctx) ==
    [ Using(s, "resize", NoArg, { "stage", "canvas", "ctx" }) EXCEPT
        !.width = StateWidth(v), !.height = StateHeight(v), !.dpr = StateDpr(v),
        !.canvas = [ width |-> CanvasSize(StateWidth(v), StateDpr(v)),
                     height |-> CanvasSize(StateHeight(v), StateDpr(v)),
                     styleWidth |-> StateWidth(v), styleHeight |-> StateHeight(v),
                     frame |-> NoFrame ],
        !.planes = buildPlanes(StateWidth(v), StateHeight(v)),
        !.calls = @ \o Created(s.resolve),
        !.resolve = buildResolveTargets(s.resolve, StateWidth(v), StateHeight(v), haveOffctx,
                                        TextPixels(v)) ]

\* resize(): v is the viewport the stage is measured in; setting canvas.width
\* and canvas.height clears the canvas
resize(s, v, haveOffctx) ==
    LET w == StateWidth(v)
        h == StateHeight(v)
        r == StateDpr(v)
    IN  [ Using(s, "resize", NoArg, { "stage", "canvas", "ctx" }) EXCEPT
            !.width = w, !.height = h, !.dpr = r,
            !.canvas = [ width |-> CanvasSize(w, r), height |-> CanvasSize(h, r),
                         styleWidth |-> w, styleHeight |-> h, frame |-> NoFrame ],
            !.planes = buildPlanes(w, h),
            !.field = buildField(w, h),
            !.calls = @ \o Created(s.resolve),
            !.resolve = buildResolveTargets(s.resolve, w, h, haveOffctx, TextPixels(v)) ]

setOverlay(s, p) ==
    Then(ActiveLine(p), LAMBDA line :
      [ Using(s, "setOverlay", p, { "lineEl", "kickerEl", "finalEl" }) EXCEPT
          !.lastLineText = line.text,
          !.dom = [ lineText      |-> IF s.lastLineText # line.text THEN line.text
                                      ELSE s.dom.lineText,
                    lineOpacity   |-> String(line.alpha),
                    lineTransform |-> ToFixed2((ONE - line.alpha) * 10),
                    kickerOpacity |-> String(clamp(kickerAlpha(p), 0, ONE)),
                    finalOpacity  |-> String(clamp(smoothstep(norm(p, Lit(840), Lit(880))), 0, ONE)),
                    reveal        |-> String(clamp(smoothstep(norm(p, Lit(840), Lit(1000))), 0, ONE)) ] ])

\* act1 .. act4 of draw(p): how far p is through each of the four acts
acts(p) == << norm(p, 0, Lit(360)), norm(p, Lit(360), Lit(580)),
              norm(p, Lit(580), Lit(760)), norm(p, Lit(760), Lit(1000)) >>

\* draw(p) that uses the particles up
drawConsuming(s, p) ==
    [ Using(s, "draw", p, { "ctx" }) EXCEPT
        !.canvas.frame = [ p |-> p, acts |-> acts(p), width |-> s.width, height |-> s.height,
                           field |-> s.field, planes |-> s.planes,
                           resolve |-> s.resolve ],
        !.resolve.particles.count = 0 ]

\* draw(p) repaints the whole canvas from p and the geometry in the state
draw(s, p) ==
    [ Using(s, "draw", p, { "ctx" }) EXCEPT
        !.canvas.frame = [ p |-> p, acts |-> acts(p), width |-> s.width, height |-> s.height,
                           field |-> s.field, planes |-> s.planes,
                           resolve |-> s.resolve ] ]

\* requestRender() without the test of rafId
requestRenderAlways(s) ==
    [ s EXCEPT
        !.calls = @ \o << Call("requestRender", NoArg),
                           Call("requestAnimationFrame", NoArg) >>,
        !.rafId = RAF, !.pendingFrames = @ + 1 ]

\* requestRender()
requestRender(s) ==
    IF s.rafId # NULL THEN Called(s, "requestRender", NoArg)
    ELSE [ s EXCEPT
             !.calls = @ \o << Call("requestRender", NoArg),
                                Call("requestAnimationFrame", NoArg) >>,
             !.rafId = RAF, !.pendingFrames = @ + 1 ]

render(s) ==
    Then([ Called(s, "render", NoArg) EXCEPT
             !.rafId = NULL,
             !.progress = renderProgress(s.progress, s.targetProgress) ],
         LAMBDA s1 :
    Then(setOverlay(s1, s1.progress), LAMBDA s2 :
    Then(draw(s2, s2.progress), LAMBDA s3 :
         IF StillConverging(s3.progress, s3.targetProgress) THEN requestRender(s3)
         ELSE s3)))

\* onScroll() that also repaints at once
onScrollDrawing(s, t, v) ==
    Then(getScrollProgress(t, OffsetHeight(v), InnerHeight(v), s.height), LAMBDA next :
         IF ScrollIgnored(next, s.targetProgress) THEN Called(s, "onScroll", NoArg)
         ELSE Then([ Called(s, "onScroll", NoArg) EXCEPT !.targetProgress = next ],
                   LAMBDA s1 : Then(requestRender(s1), LAMBDA s2 : draw(s2, s2.progress))))

\* onScroll(): t is the root's rect.top, v the viewport
onScroll(s, t, v) ==
    Then(getScrollProgress(t, OffsetHeight(v), InnerHeight(v), s.height), LAMBDA next :
         IF ScrollIgnored(next, s.targetProgress) THEN Called(s, "onScroll", NoArg)
         ELSE Then([ Called(s, "onScroll", NoArg) EXCEPT !.targetProgress = next ],
                   LAMBDA s1 : requestRender(s1)))

\* the function utils.debounce(..., 120) returns: restart the timer
onResize(s) ==
    [ Called(s, "onResize", NoArg) EXCEPT !.timeout = TIMER ]

\* the debounced callback, run when the timer fires
later(s, v, haveOffctx) ==
    Then([ Called(s, "later", NoArg) EXCEPT !.timeout = NULL ], LAMBDA s1 :
    Then(resize(s1, v, haveOffctx), LAMBDA s2 : requestRender(s2)))

\* the reduced-motion branch of initFarViewSequence, after resize()
staticEndState(s) ==
    Then([ s EXCEPT !.progress = ONE, !.targetProgress = ONE, !.lastLineText = "",
                    !.thrown = @ \/ ~({ "lineEl", "kickerEl", "finalEl" } \subseteq s.have),
                    !.dom = [ @ EXCEPT !.kickerOpacity = "1", !.finalOpacity = "1",
                                       !.reveal = "1", !.lineText = "",
                                       !.lineOpacity = "0" ] ],
         LAMBDA s1 : draw(s1, ONE))

\* window.addEventListener for scroll and resize
addListeners(s) ==
    [ s EXCEPT
        !.calls = @ \o << Call("addEventListener", NoArg), Call("addEventListener", NoArg) >>,
        !.listeners = @ \cup { "scroll", "resize" } ]

\* initFarViewSequence() whose reduced-motion branch does not return
initFallingThrough(s, have, prefersReduced, t, v) ==
    IF "root" \notin have THEN s
    ELSE IF ~({ "stage", "canvas", "lineEl", "kickerEl", "finalEl" } \subseteq have) THEN s
    ELSE IF "ctx" \notin have THEN s
    ELSE Then(resize(s, v, "offctx" \in have), LAMBDA s1 :
         Then(IF prefersReduced THEN staticEndState(s1) ELSE s1, LAMBDA s2 :
         Then(addListeners(s2), LAMBDA s3 : onScroll(s3, t, v))))

\* initFarViewSequence() without the test of the 2-D context
initWithoutContextTest(s, have, prefersReduced, t, v) ==
    IF "root" \notin have THEN s
    ELSE IF ~({ "stage", "canvas", "lineEl", "kickerEl", "finalEl" } \subseteq have) THEN s
    ELSE Then(resize(s, v, "offctx" \in have), LAMBDA s1 :
              IF prefersReduced THEN staticEndState(s1)
              ELSE Then(addListeners(s1), LAMBDA s2 : onScroll(s2, t, v)))

\* initFarViewSequence(): have is the set of anchors found
initFarViewSequence(s, have, prefersReduced, t, v) ==
    IF "root" \notin have THEN s
    ELSE IF ~({ "stage", "canvas", "lineEl", "kickerEl", "finalEl" } \subseteq have) THEN s
    ELSE IF "ctx" \notin have THEN s
    ELSE Then(resize(s, v, "offctx" \in have), LAMBDA s1 :
              IF prefersReduced THEN staticEndState(s1)
              ELSE Then(addListeners(s1), LAMBDA s2 : onScroll(s2, t, v)))

----------------------------------------------------------------------------
(* The Why-Choose-Us section (initWhyChooseUs).  Its numbers are in units of *)
(* 1e-7, and lengths in units of 1/2500 px, so that a scroll range of        *)
(* 4000 px is WONE units.                                                    *)

WONE == 10 * 1000 * 1000
\* the 1e-6 of update()
PHASE_EPS == WONE \div (1000 * 1000)
\* rect.height - window.innerHeight of the section: 4000 px, 2000 px, and a
\* section shorter than the viewport
WcuRanges == { WONE, WONE \div 2, 0 - 2500 }
\* scroll positions: the distance scrolled past the section's top, on a grid
\* over the range and around each quarter of a range of 4000 px
WcuScrolled ==
    { (k * WONE) \div GridSteps : k \in (0 - 1) .. (GridSteps + 1) }
    \cup { (j * WONE) \div 4 + d : j \in 0 .. 4, d \in (0 - 1) .. 3 }

\* n / d of two lengths, d > 0 a divisor of WONE; beyond 2 and -2 the
\* quotient is cut off, which the clamp that follows does not see
Quot(n, d) ==
    IF n >= 2 * d THEN 2 * WONE ELSE IF n <= -(2 * d) THEN -(2 * WONE) ELSE n * (WONE \div d)

\* phaseIndex of update() without the 1e-6
phaseIndexExact(phaseFloat) == Min(3, FloorDiv(Max(0, phaseFloat), WONE))

\* phaseIndex of update()
phaseIndexOf(phaseFloat) == Min(3, FloorDiv(Max(0, phaseFloat - PHASE_EPS), WONE))

\* clamp((local - a) / b, 0, 1), a and b in hundredths
Ramp(local, a, b) == clamp(RoundDiv((local - a * (WONE \div 100)) * 100, b), 0, WONE)

\* the eleven custom properties update() sets for phase i at local progress
setVars(i, local) ==
    [ p1sweep  |-> IF i = 0 THEN Ramp(local, 0, 35) ELSE 0,
      p1rect   |-> IF i = 0 THEN Ramp(local, 25, 55) ELSE 0,
      p1gold   |-> IF i = 0 THEN Ramp(local, 82, 18) ELSE 0,
      p2center |-> IF i = 1 THEN Ramp(local, 0, 18) ELSE 0,
      p2grid   |-> IF i = 1 THEN Ramp(local, 8, 62) ELSE 0,
      p2links  |-> IF i = 1 THEN Ramp(local, 28, 62) ELSE 0,
      p3ring   |-> IF i = 2 THEN Ramp(local, 0, 55) ELSE 0,
      p3links  |-> IF i = 2 THEN Ramp(local, 18, 62) ELSE 0,
      p3core   |-> IF i = 2 THEN Ramp(local, 62, 38) ELSE 0,
      p4clean  |-> IF i = 3 THEN Ramp(local, 0, 72) ELSE 0,
      p4line   |-> IF i = 3 THEN Ramp(local, 35, 65) ELSE 0 ]

\* the section before the script runs: scrolled is -rect.top, range is
\* rect.height - window.innerHeight, hasSection and hasAlign say which nodes
\* the page holds
WcuFresh(hasSection, hasAlign, scrolled, range) ==
    [ hasSection |-> hasSection, hasAlign |-> hasAlign,
      scrolled |-> scrolled, range |-> range,
      wcuInit |-> FALSE, listeners |-> {}, raf |-> 0,
      lastPhaseIndex |-> 0 - 1, needsAlign |-> TRUE,
      headerOffset |-> UNSET, t |-> UNSET, local |-> UNSET, setVars |-> UNSET,
      activeIndex |-> UNSET, phaseText |-> UNSET, updates |-> 0 ]
\* a page without the section
WcuOff == WcuFresh(FALSE, FALSE, 0, WONE)

\* update(): updates counts its runs, up to 2
update(w) ==
    LET range      == Max(2500, w.range)
        t          == clamp(Quot(w.scrolled, range), 0, WONE)
        phaseFloat == t * 4
        phaseIndex == phaseIndexOf(phaseFloat)
        local      == clamp(phaseFloat - phaseIndex * WONE, 0, WONE)
        align      == w.hasAlign /\ (w.needsAlign \/ phaseIndex # w.lastPhaseIndex)
    IN  [ w EXCEPT
            !.raf = 0,
            !.t = t, !.local = local,
            !.setVars = setVars(phaseIndex, local),
            !.activeIndex = phaseIndex,
            !.phaseText = "0" \o Digit(phaseIndex + 1) \o " / 04",
            !.lastPhaseIndex = IF align THEN phaseIndex ELSE @,
            !.needsAlign = IF align THEN FALSE ELSE @,
            !.updates = Min(2, @ + 1) ]

\* schedule()
schedule(w) == IF w.raf # 0 THEN w ELSE [ w EXCEPT !.raf = 1 ]

\* measureHeaderOffset(): the floating navigation is 64 px tall
measureHeaderOffset(w) == [ w EXCEPT !.headerOffset = 64 ]

\* initWhyChooseUs()
initWhyChooseUs(w) ==
    IF ~w.hasSection THEN w
    ELSE IF w.wcuInit THEN w
    ELSE Then(update(measureHeaderOffset([ w EXCEPT !.wcuInit = TRUE ])), LAMBDA w1 :
              [ w1 EXCEPT !.listeners = { "resize", "scroll" } ])

----------------------------------------------------------------------------
(* The terminal (initFarviewTerminal).  What is typed is a sequence of       *)
(* characters; what is shown is a string.                                    *)

\* the most commands submitted in one behaviour
MaxCommands == 1
\* how far below -1 ArrowDown presses take historyIndex in one behaviour
MaxDown == 1

PROMPT == "farview@core:~$"

\* the command names, in the order of Object.keys(commands)
commandKeys ==
    << << "h", "e", "l", "p" >>,
       << "s", "t", "a", "t", "u", "s" >>,
       << "m", "i", "s", "s", "i", "o", "n" >>,
       << "v", "i", "s", "i", "o", "n" >>,
       << "r", "e", "a", "c", "h" >>,
       << "p", "r", "o", "t", "o", "c", "o", "l", "_", "i", "n", "i", "t" >>,
       << "p", "r", "i", "n", "c", "i", "p", "l", "e", "s" >>,
       << "c", "l", "e", "a", "r" >> >>
\* the lower-case names every object inherits from Object.prototype
inheritedKeys ==
    { << "c", "o", "n", "s", "t", "r", "u", "c", "t", "o", "r" >>,
      << "_", "_", "p", "r", "o", "t", "o", "_", "_" >> }
\* the lines typed into the input
TypedLines ==
    { << >>, << " ", " " >>,
      << "h", "e", "l", "p" >>,
      << " ", "S", "t", "a", "t", "u", "s", " ", " ", "n", "o", "w", " " >>,
      << "c", "l", "e", "a", "r" >>,
      << "c", "l" >>,
      << "c", "o", "n", "s", "t", "r", "u", "c", "t", "o", "r" >>,
      << "_", "_", "p", "r", "o", "t", "o", "_", "_", " ", "x" >>,
      << "a", "<", "b", "&" >> }

upperCase == << "A", "B", "C", "D", "E", "F", "G", "H", "I", "J", "K", "L", "M",
                "N", "O", "P", "Q", "R", "S", "T", "U", "V", "W", "X", "Y", "Z" >>
lowerCase == << "a", "b", "c", "d", "e", "f", "g", "h", "i", "j", "k", "l", "m",
                "n", "o", "p", "q", "r", "s", "t", "u", "v", "w", "x", "y", "z" >>

\* String.prototype.toLowerCase
toLowerCase(v) ==
    [ i \in 1 .. Len(v) |->
        IF \E k \in 1 .. 26 : upperCase[k] = v[i]
        THEN lowerCase[CHOOSE k \in 1 .. 26 : upperCase[k] = v[i]]
        ELSE v[i] ]

\* String.prototype.trim
RECURSIVE trimStart(_)
trimStart(v) == IF v # << >> /\ Head(v) = " " THEN trimStart(Tail(v)) ELSE v
RECURSIVE trimEnd(_)
trimEnd(v) == IF v # << >> /\ v[Len(v)] = " " THEN trimEnd(SubSeq(v, 1, Len(v) - 1)) ELSE v
trim(v) == trimEnd(trimStart(v))

\* cmd.split(/\s+/)[0]
RECURSIVE firstWord(_)
firstWord(v) == IF v = << >> \/ Head(v) = " " THEN << >> ELSE << Head(v) >> \o firstWord(Tail(v))

\* the string of a sequence of characters
RECURSIVE Text(_)
Text(v) == IF v = << >> THEN "" ELSE Head(v) \o Text(Tail(v))

\* escapeHtml of a sequence of characters, as a string
RECURSIVE escapeHtml(_)
escapeHtml(v) ==
    IF v = << >> THEN ""
    ELSE (CASE Head(v) = "&" -> "&amp;"
            [] Head(v) = "<" -> "&lt;"
            [] Head(v) = ">" -> "&gt;"
            [] OTHER         -> Head(v)) \o escapeHtml(Tail(v))

\* String.prototype.startsWith
startsWith(k, v) == Len(v) <= Len(k) /\ SubSeq(k, 1, Len(v)) = v

\* the number of lines commands[key].run() returns
runLength(key) ==
    CASE key = commandKeys[1] -> 8
      [] key = commandKeys[2] -> 4
      [] key = commandKeys[3] -> 3
      [] key = commandKeys[4] -> 3
      [] key = commandKeys[5] -> 3
      [] key = commandKeys[6] -> 6
      [] key = commandKeys[7] -> 6
      [] OTHER                -> 0
\* the lines commands[key].run() returns, each named by the command and its
\* place in the array
run(key) == [ i \in 1 .. runLength(key) |-> Text(key) \o ":" \o Digit(i) ]
\* commands[key].summary, named by the command
summary(key) == "summary:" \o Text(key)

\* commands[key]: an entry of the table, a value inherited from
\* Object.prototype (which has no run), or undefined
lookup(key) ==
    IF \E i \in 1 .. Len(commandKeys) : commandKeys[i] = key THEN "entry"
    ELSE IF key \in inheritedKeys THEN "inherited"
    ELSE "undefined"

\* bestMatch(value): the exact match, else the first of the shortest names
\* that start with the trimmed lower-case value; << >> stands for null
bestMatch(value) ==
    LET v       == toLowerCase(trim(value))
        matches == { i \in 1 .. Len(commandKeys) : startsWith(commandKeys[i], v) }
    IN  IF v = << >> THEN << >>
        ELSE IF matches = {} THEN << >>
        ELSE IF \E i \in matches : commandKeys[i] = v THEN v
        ELSE commandKeys[CHOOSE i \in matches :
                           \A j \in matches :
                              \/ Len(commandKeys[i]) < Len(commandKeys[j])
                              \/ Len(commandKeys[i]) = Len(commandKeys[j]) /\ i <= j]

\* the terminal before the script runs; nodes says whether the page holds
\* the terminal and its five nodes, output the innerHTML of each line of the
\* output node
TermFresh(nodes) ==
    [ nodes |-> nodes, listeners |-> {}, output |-> << [cls |-> "static", text |-> "markup"] >>,
      history |-> << >>, historyIndex |-> 0 - 1, rafPending |-> FALSE, frames |-> 0,
      value |-> << >>, typed |-> UNSET, ghost |-> UNSET, suggest |-> UNSET,
      event |-> "none", thrown |-> FALSE ]
TermOff == TermFresh(FALSE)

appendLine(t, text, className) ==
    [ t EXCEPT !.output = Append(@, [cls |-> className, text |-> text]) ]

appendCommandEcho(t, cmd) ==
    [ t EXCEPT !.output = Append(@, [cls |-> "cmd", text |-> PROMPT \o " " \o escapeHtml(cmd)]) ]

RECURSIVE appendLines(_, _)
appendLines(t, lines) ==
    IF lines = << >> THEN t ELSE appendLines(appendLine(t, Head(lines), ""), Tail(lines))

renderHint(t) ==
    LET m == bestMatch(t.value)
        v == trim(t.value)
    IN  IF m # << >> /\ v # << >>
        THEN [ t EXCEPT !.typed = Text(t.value),
                        !.ghost = Text(SubSeq(m, Len(v) + 1, Len(m))),
                        !.suggest = IF m = v THEN summary(m) ELSE "Tab to complete: " \o Text(m) ]
        ELSE [ t EXCEPT !.typed = Text(t.value),
                        !.ghost = "",
                        !.suggest = IF v # << >> THEN "No match. Type \"help\"."
                                    ELSE "Type \"help\" for commands." ]

scheduleRender(t) ==
    IF t.rafPending THEN t ELSE [ t EXCEPT !.rafPending = TRUE, !.frames = @ + 1 ]

setInputValue(t, value) == scheduleRender([ t EXCEPT !.value = value ])

\* runCommand(raw); calling run of a value that has none raises a TypeError
runCommand(t, raw) ==
    LET cmd == trim(raw)
        key == toLowerCase(firstWord(cmd))
    IN  IF cmd = << >> THEN t
        ELSE Then(appendCommandEcho([ t EXCEPT !.history = << cmd >> \o @,
                                               !.historyIndex = 0 - 1 ], cmd), LAMBDA t1 :
             CASE lookup(key) = "undefined" ->
                    appendLine(t1, "Command not found: " \o escapeHtml(key) \o ". Type \"help\".",
                               "muted")
               [] lookup(key) = "inherited" -> [ t1 EXCEPT !.thrown = TRUE ]
               [] key = commandKeys[8] -> [ t1 EXCEPT !.output = << >> ]
               [] OTHER -> appendLines(t1, run(key)))

\* history[i]; outside the array it is undefined, which an input shows as
\* the word
historyAt(t, i) ==
    IF i \in 0 .. Len(t.history) - 1 THEN t.history[i + 1]
    ELSE << "u", "n", "d", "e", "f", "i", "n", "e", "d" >>

\* the keydown listener of the input
keydown(t, key) ==
    CASE key = "Tab" ->
           IF bestMatch(t.value) # << >>
           THEN setInputValue(t, bestMatch(t.value) \o << " " >>) ELSE t
      [] key = "Enter" ->
           Then(setInputValue(t, << >>), LAMBDA t1 :
                runCommand([ t1 EXCEPT !.ghost = "", !.suggest = "" ], t.value))
      [] key = "ArrowUp" ->
           IF t.history = << >> THEN t
           ELSE Then(Min(t.historyIndex + 1, Len(t.history) - 1), LAMBDA nextIndex :
                     setInputValue([ t EXCEPT !.historyIndex = nextIndex ],
                                   historyAt(t, nextIndex)))
      [] key = "ArrowDown" ->
           IF t.history = << >> THEN t
           ELSE Then(t.historyIndex - 1, LAMBDA nextIndex :
                     setInputValue([ t EXCEPT !.historyIndex = nextIndex ],
                                   IF nextIndex < 0 THEN << >> ELSE historyAt(t, nextIndex)))
      [] OTHER -> t

\* initFarviewTerminal(); the dash of the third banner line is written --
initFarviewTerminal(t) ==
    IF ~t.nodes THEN t
    ELSE Then([ t EXCEPT !.listeners = { "pointerdown", "input", "keydown" },
                          !.output = << >> ], LAMBDA t0 :
         Then(appendLine(t0, "FarviewGlobal Terminal", "title"), LAMBDA t1 :
         Then(appendLine(t1, "Type \"help\" to explore conceptual commands.", "muted"), LAMBDA t2 :
         Then(appendLine(t2, "This terminal is a narrative interface--not a shell.", "muted"),
              LAMBDA t3 : scheduleRender(appendLine(t3, "", ""))))))

----------------------------------------------------------------------------
(* The Human-Simple-Scalable section (initHumanSimpleScalable) *)

\* the listeners attach() adds to the window
InputListeners == { "wheel", "keydown", "touchstart", "touchmove" }
\* the deltaY of a wheel event; numeric is whether it is a number
WheelEvents == { [deltaY |-> d, numeric |-> n] : d \in { 0 - 100, 0, 100 }, n \in { TRUE } }
               \cup { [deltaY |-> 0, numeric |-> FALSE] }
\* the key of a keydown event
KeyEvents == { "ArrowDown", "PageDown", " ", "Spacebar", "ArrowUp", "Enter" }
\* the touches of a touch event: none, or one finger at clientY
TouchEvents == { << >> } \cup { << y >> : y \in { 0, 120, 300 } }
\* window.scrollY after a scroll
ScrollYs == { 0, 2, 3, 600 }

\* the section before the script runs: classes are those of the markup,
\* inView and scrollY the place of the section and the window
HssFresh(hasSection, hasBrand, hasNav, classes) ==
    [ hasSection |-> hasSection, hasBrand |-> hasBrand, hasNav |-> hasNav,
      hssInit |-> FALSE, started |-> FALSE, classes |-> classes, headerOffset |-> UNSET,
      listeners |-> {}, resizeTimer |-> 0, resizeTimers |-> 0,
      hasTriggered |-> FALSE, touchY |-> 0, sequenceTimer |-> 0, sequenceTimers |-> 0,
      isListening |-> FALSE, inView |-> TRUE, scrollY |-> 0,
      event |-> "none", input |-> << >> ]
\* a page without the section
HssOff == HssFresh(FALSE, FALSE, FALSE, {})

hssMeasureHeaderOffset(h) == [ h EXCEPT !.headerOffset = IF h.hasNav THEN 64 ELSE 0 ]

\* onResize of the section: restart the 120 ms timer
hssOnResize(h) ==
    [ h EXCEPT !.resizeTimers = IF h.resizeTimer # 0 THEN 1 ELSE @ + 1,
               !.resizeTimer = 1 ]

attach(h) ==
    IF h.isListening THEN h
    ELSE [ h EXCEPT !.isListening = TRUE, !.listeners = @ \cup InputListeners ]

\* detach() that leaves the listeners on the window
detachKeeping(h) ==
    IF ~h.isListening THEN h ELSE [ h EXCEPT !.isListening = FALSE ]

detach(h) ==
    IF ~h.isListening THEN h
    ELSE [ h EXCEPT !.isListening = FALSE, !.listeners = @ \ InputListeners ]

\* window.clearTimeout(sequenceTimer) when sequenceTimer is set
clearSequenceTimer(h) ==
    IF h.sequenceTimer # 0 THEN [ h EXCEPT !.sequenceTimers = Max(0, @ - 1) ] ELSE h

triggerSequence(h) ==
    IF h.hasTriggered THEN h
    ELSE IF ~h.inView THEN h
    ELSE Then([ h EXCEPT !.hasTriggered = TRUE,
                         !.classes = @ \cup { "is-brand-hidden" } ], LAMBDA h1 :
         Then(clearSequenceTimer(h1), LAMBDA h2 :
              detach([ h2 EXCEPT !.sequenceTimer = 1, !.sequenceTimers = @ + 1 ])))

\* maybeReset() that leaves a pending sequence timer running
maybeResetKeepingTimer(h) ==
    IF ~h.hasTriggered THEN h
    ELSE IF ~h.inView THEN h
    ELSE IF h.scrollY > 2 THEN h
    ELSE attach([ h EXCEPT !.hasTriggered = FALSE, !.touchY = 0, !.sequenceTimer = 0,
                           !.classes = @ \ { "is-brand-hidden", "is-sequenced" } ])

maybeReset(h) ==
    IF ~h.hasTriggered THEN h
    ELSE IF ~h.inView THEN h
    ELSE IF h.scrollY > 2 THEN h
    ELSE Then(clearSequenceTimer([ h EXCEPT !.hasTriggered = FALSE, !.touchY = 0 ]), LAMBDA h1 :
              attach([ h1 EXCEPT !.sequenceTimer = 0,
                                 !.classes = @ \ { "is-brand-hidden", "is-sequenced" } ]))

onWheel(h, e) ==
    IF h.hasTriggered THEN h
    ELSE IF ~e.numeric THEN h
    ELSE IF e.deltaY <= 0 THEN h
    ELSE triggerSequence(h)

onKeyDown(h, key) ==
    IF h.hasTriggered THEN h
    ELSE IF key \notin { "ArrowDown", "PageDown", " ", "Spacebar" } THEN h
    ELSE triggerSequence(h)

onTouchStart(h, touches) ==
    IF touches = << >> THEN h ELSE [ h EXCEPT !.touchY = touches[1] ]

onTouchMove(h, touches) ==
    IF h.hasTriggered THEN h
    ELSE IF touches = << >> THEN h
    ELSE Then([ h EXCEPT !.touchY = touches[1] ], LAMBDA h1 :
              IF h.touchY - touches[1] <= 0 THEN h1 ELSE triggerSequence(h1))

\* initHumanSimpleScalable(options)
initHumanSimpleScalable(h, forceFinal) ==
    IF ~h.hasSection THEN h
    ELSE IF h.hssInit THEN h
    ELSE Then([ h EXCEPT !.hssInit = TRUE,
                         !.classes = @ \ { "is-brand-hidden", "is-sequenced" } ], LAMBDA h1 :
         IF ~h1.hasBrand THEN h1
         ELSE IF forceFinal
         THEN [ h1 EXCEPT !.classes = @ \cup { "is-brand-hidden", "is-sequenced" } ]
         ELSE Then(hssMeasureHeaderOffset(h1), LAMBDA h2 :
              Then(attach([ h2 EXCEPT !.started = TRUE,
                                      !.listeners = @ \cup { "resize" } ]), LAMBDA h3 :
                   [ h3 EXCEPT !.listeners = @ \cup { "scroll" } ])))

----------------------------------------------------------------------------
(* The vein field (js/veins.js, class TerminalVeinField).  A progress is
   counted in units of 10^-9, a speed in the same units per millisecond, a
   time in milliseconds.  The phase and the intensity of a lumen are read by
   the painting only and are left out. *)

VONE == 1000000000

MOBILE_BREAKPOINT == 768

\* ROUTES, the points in hundredths of the canvas
ROUTES ==
    << << << 0 - 8, 22 >>, << 18, 22 >>, << 18, 36 >>, << 64, 36 >>, << 82, 22 >>, << 106, 22 >> >>,
       << << 0 - 6, 45 >>, << 24, 45 >>, << 24, 58 >>, << 58, 58 >>, << 58, 78 >>, << 94, 78 >> >>,
       << << 8, 0 - 4 >>, << 8, 18 >>, << 34, 18 >>, << 34, 48 >>, << 54, 48 >>, << 54, 66 >> >>,
       << << 16, 78 >>, << 16, 90 >>, << 46, 90 >>, << 68, 72 >>, << 68, 56 >> >> >>

\* the windows the field is laid out in: the hero element may be missing,
\* and then the height of the window is taken
VeinLayouts ==
    { [ innerWidth |-> 0,    innerHeight |-> 0,   hero |-> TRUE,  offsetHeight |-> 0 ],
      [ innerWidth |-> 600,  innerHeight |-> 800, hero |-> TRUE,  offsetHeight |-> 700 ],
      [ innerWidth |-> 1280, innerHeight |-> 800, hero |-> FALSE, offsetHeight |-> 0 ],
      [ innerWidth |-> 1280, innerHeight |-> 800, hero |-> TRUE,  offsetHeight |-> 0 ] }

\* the values Math.random() returns, in [0, 1): a seed picks the stream and
\* the k-th call takes its k-th value
RandomValues == << 999200000, 0, 999999999, 500000000 >>
VeinSeeds == 0 .. 3
random(seed, k) == RandomValues[((seed + k) % Len(RandomValues)) + 1]

\* the number of frames the field is followed for
MaxFrames == 3
\* the time from one frame to the next; a negative one is a timestamp that
\* precedes the time taken before it
FrameSteps == { 0 - 16, 0, 16, 1000 }

\* the length of the polyline of a route in a canvas of the given size, in
\* hundredths of a pixel and along the axes.  createStructuredPath rounds
\* the corners, which shortens a path by less than the half segments the
\* curve replaces: totalLength is above EPSILON exactly when this length is
\* above zero, and seedLumens reads nothing else of it
RECURSIVE polylineLength(_, _, _, _)
polylineLength(points, i, w, h) ==
    IF i >= Len(points) THEN 0
    ELSE Abs(points[i + 1][1] - points[i][1]) * w
           + Abs(points[i + 1][2] - points[i][2]) * h
           + polylineLength(points, i + 1, w, h)

createStructuredPath(v, route) == [ totalLength |-> polylineLength(route, 1, v.width, v.height) ]

\* the field before construction: no canvas is looked up yet
VeinFresh(hasCanvas, hasCtx, layout) ==
    [ hasCanvas |-> hasCanvas, hasCtx |-> hasCtx, window |-> layout,
      constructed |-> FALSE, width |-> 0, height |-> 0, scaleBase |-> 0,
      isMobile |-> FALSE, lineWidth |-> 18, paths |-> << >>, lumens |-> << >>,
      lastTime |-> 0, isRunning |-> FALSE, listeners |-> {}, pendingFrames |-> 0,
      frames |-> 0, event |-> "none", input |-> << >> ]

VeinsOff == VeinFresh(FALSE, FALSE, [ innerWidth |-> 0, innerHeight |-> 0,
                                      hero |-> FALSE, offsetHeight |-> 0 ])

\* updateCanvasMetrics(): lineWidth in tenths
updateCanvasMetrics(v) ==
    Then(IF v.window.hero THEN v.window.offsetHeight ELSE v.window.innerHeight, LAMBDA heroHeight :
      [ v EXCEPT !.width = v.window.innerWidth,
                 !.height = heroHeight,
                 !.scaleBase = Max(1, Min(v.window.innerWidth, heroHeight)),
                 !.lineWidth = IF v.isMobile THEN 16 ELSE 24 ])

\* buildPaths()
buildPaths(v) ==
    [ v EXCEPT !.paths = [ i \in 1 .. Len(ROUTES) |-> createStructuredPath(v, ROUTES[i]) ] ]

\* the lumens seedLumens pushes for the paths from index on; k counts the
\* calls of Math.random() made so far (three for a lumen)
RECURSIVE seedPath(_, _, _, _, _, _)
seedPath(v, allocations, seed, index, i, k) ==
    IF index > Len(v.paths) THEN << >>
    ELSE IF v.paths[index].totalLength <= 0 \/ i >= allocations[index]
    THEN seedPath(v, allocations, seed, index + 1, 0, k)
    ELSE << [ pathIndex |-> index - 1,
              progress |-> random(seed, k),
              speed |-> IF v.isMobile
                        THEN 11000 + ((random(seed, k + 1) \div 1000) * 4) \div 1000
                        ELSE 16000 + ((random(seed, k + 1) \div 1000) * 5) \div 1000 ] >>
         \o seedPath(v, allocations, seed, index, i + 1, k + 3)

\* seedLumens()
seedLumens(v, seed) ==
    Then(IF v.isMobile THEN << 1, 1, 0, 1 >> ELSE << 2, 1, 1, 1 >>, LAMBDA allocations :
    Then(seedPath(v, allocations, seed, 1, 0, 0), LAMBDA lumens :
      IF lumens = << >> /\ Len(v.paths) # 0
      THEN [ v EXCEPT !.lumens = << [ pathIndex |-> 0, progress |-> random(seed, 0),
                                      speed |-> 13000 ] >> ]
      ELSE [ v EXCEPT !.lumens = lumens ]))

\* updateLumens without the wrap
updateLumensNoWrap(v, delta) ==
    [ v EXCEPT !.lumens = [ i \in 1 .. Len(v.lumens) |->
        [ v.lumens[i] EXCEPT !.progress = @ + v.lumens[i].speed * delta ] ] ]

\* updateLumens(delta), delta in milliseconds
updateLumens(v, delta) ==
    [ v EXCEPT !.lumens = [ i \in 1 .. Len(v.lumens) |->
        [ v.lumens[i] EXCEPT !.progress =
            IF @ + v.lumens[i].speed * delta > VONE
            THEN @ + v.lumens[i].speed * delta - VONE
            ELSE @ + v.lumens[i].speed * delta ] ] ]

\* drawFrame(delta): the painting leaves the state alone
drawFrame(v, delta) == updateLumens(v, delta)

\* renderLoop(timestamp)
renderLoop(v, timestamp) ==
    IF ~v.isRunning THEN v
    ELSE Then(drawFrame([ v EXCEPT !.lastTime = timestamp ], Min(timestamp - v.lastTime, 50)),
              LAMBDA v1 : [ v1 EXCEPT !.pendingFrames = @ + 1 ])

\* handleResize()
handleResize(v, seed) ==
    seedLumens(buildPaths(updateCanvasMetrics(
        [ v EXCEPT !.isMobile = v.window.innerWidth <= MOBILE_BREAKPOINT ])), seed)

\* init() of the field, at the time now
fieldInit(v, seed, now) ==
    IF ~v.hasCtx THEN v
    ELSE Then(seedLumens(buildPaths(updateCanvasMetrics(v)), seed), LAMBDA v1 :
         [ v1 EXCEPT !.listeners = @ \cup { "resize" },
                     !.isRunning = TRUE,
                     !.lastTime = now,
                     !.pendingFrames = @ + 1 ])

\* initVeinCanvas(): the constructor and init()
initVeinCanvas(v, seed, now) ==
    IF ~v.hasCanvas THEN v
    ELSE fieldInit([ v EXCEPT !.constructed = TRUE,
                              !.isMobile = v.window.innerWidth <= MOBILE_BREAKPOINT ],
                   seed, now)

----------------------------------------------------------------------------
(* The testimonial carousel (initSignalScan).  A story carries its index as
   its data-client key; a timer is a handle and the index it will show. *)

\* the number of switches and of frames the carousel is followed for
MaxSwitches == 2

\* the carousel before initSignalScan: the elements of the page, and the
\* stories that have a template
CarouselFresh(hasSection, hasStage, hasFields, count, hasButtons, templates, reducedMotion) ==
    [ hasSection |-> hasSection, hasStage |-> hasStage, hasFields |-> hasFields,
      stories |-> count, hasButtons |-> hasButtons, templates |-> templates,
      reducedMotion |-> reducedMotion,
      activeIndex |-> 0, isSwitching |-> FALSE, switchingTimer |-> 0,
      timers |-> {}, timerIds |-> 0,
      stageClasses |-> {}, active |-> [ i \in 0 .. count - 1 |-> FALSE ],
      shown |-> 0 - 1, perspectiveClasses |-> {}, pendingFrames |-> 0,
      minHeight |-> 0, resizeTimers |-> 0, listeners |-> {},
      event |-> "none", input |-> << >> ]

CarouselOff == CarouselFresh(FALSE, FALSE, FALSE, 0, FALSE, {}, FALSE)

\* clearTimers()
clearTimers(c) ==
    [ c EXCEPT !.timers = IF c.switchingTimer # 0
                          THEN { t \in @ : t.id # c.switchingTimer } ELSE @,
               !.switchingTimer = 0 ]

\* updatePerspective(index)
updatePerspective(c, index) ==
    IF index \notin 0 .. c.stories - 1 THEN c
    ELSE IF index \notin c.templates THEN c
    ELSE [ c EXCEPT !.perspectiveClasses = @ \cup { "is-updating" },
                    !.shown = index,
                    !.pendingFrames = @ + 1 ]

\* setActive(index) of the carousel
signalSetActive(c, index) ==
    IF index \notin 0 .. c.stories - 1 THEN c
    ELSE updatePerspective([ c EXCEPT !.activeIndex = index,
                                      !.active = [ i \in 0 .. c.stories - 1 |-> i = index ] ],
                           index)

\* stabilizeStageHeight(), the clones measuring maxHeight
stabilizeStageHeight(c, maxHeight) ==
    IF maxHeight > 0 THEN [ c EXCEPT !.minHeight = maxHeight ] ELSE c

\* startSwitch(nextIndex)
startSwitch(c, nextIndex) ==
    IF nextIndex \notin 0 .. c.stories - 1 THEN c
    ELSE IF nextIndex = c.activeIndex THEN c
    ELSE IF c.reducedMotion THEN signalSetActive(c, nextIndex)
    ELSE IF c.isSwitching THEN c
    ELSE Then(clearTimers([ c EXCEPT !.isSwitching = TRUE,
                                     !.stageClasses = @ \cup { "is-switching" } ]), LAMBDA c1 :
         [ c1 EXCEPT !.switchingTimer = c.timerIds + 1,
                     !.timerIds = @ + 1,
                     !.timers = @ \cup { [ id |-> c.timerIds + 1, nextIndex |-> nextIndex ] } ])

\* the callback of the switch timer
switchTimeout(c, t) ==
    [ signalSetActive([ c EXCEPT !.timers = @ \ { t } ], t.nextIndex)
        EXCEPT !.stageClasses = @ \ { "is-switching" },
               !.isSwitching = FALSE ]

goPrev(c) == startSwitch(c, (c.activeIndex - 1 + c.stories) % c.stories)

goNext(c) == startSwitch(c, (c.activeIndex + 1) % c.stories)

\* the keydown listener of the stage
signalKeydown(c, key) ==
    Then(IF key = "ArrowLeft" THEN goPrev(c) ELSE c, LAMBDA c1 :
         IF key = "ArrowRight" THEN goNext(c1) ELSE c1)

\* initSignalScan()
initSignalScan(c, maxHeight) ==
    IF ~c.hasSection THEN c
    ELSE IF ~c.hasStage \/ c.stories = 0 \/ ~c.hasFields THEN c
    ELSE Then([ c EXCEPT !.listeners = @ \cup (IF c.hasButtons THEN { "prev", "next" } ELSE {})
                                         \cup { "keydown", "beforeunload" } ], LAMBDA c1 :
         Then(stabilizeStageHeight(c1, maxHeight), LAMBDA c2 :
              signalSetActive([ c2 EXCEPT !.listeners = @ \cup { "resize" } ], 0)))

----------------------------------------------------------------------------
(* The services rail (initServicesRail).  The triggers and the panels are
   sequences in document order; an attribute that is missing or empty is the
   empty string, and activeKey is NULL while it holds no key. *)

\* the rail before initServicesRail: the markup of the page
RailFresh(hasSection, hasStack, keys, panelKeys, markupActive) ==
    [ hasSection |-> hasSection, hasStack |-> hasStack,
      keys |-> keys, panelKeys |-> panelKeys,
      ready |-> FALSE, activeKey |-> NULL,
      triggerActive |-> [ i \in 1 .. Len(keys) |-> i \in markupActive ],
      expanded |-> [ i \in 1 .. Len(keys) |-> UNSET ],
      tabindex |-> [ i \in 1 .. Len(keys) |-> UNSET ],
      panelActive |-> [ i \in 1 .. Len(panelKeys) |-> FALSE ],
      hidden |-> [ i \in 1 .. Len(panelKeys) |-> UNSET ],
      focused |-> 0, minHeight |-> 0, event |-> "none", input |-> << >> ]

RailOff == RailFresh(FALSE, FALSE, << >>, << >>, {})

\* triggers.find(...): the first trigger of the set, 0 when there is none
findTrigger(r, matching) ==
    IF matching = {} THEN 0 ELSE CHOOSE i \in matching : \A j \in matching : i <= j

\* panelMap.get(key): the last panel that carries the key, 0 when there is
\* none; a panel without key is not in the map
panelMapGet(r, key) ==
    Then({ i \in 1 .. Len(r.panelKeys) : r.panelKeys[i] = key /\ key # "" }, LAMBDA having :
         IF having = {} THEN 0 ELSE CHOOSE i \in having : \A j \in having : i >= j)

\* the focus listener of trigger i
onFocus(r, i) ==
    [ r EXCEPT !.tabindex = [ j \in 1 .. Len(r.keys) |-> IF j = i THEN "0" ELSE "-1" ] ]

\* trigger.focus(): the focus event fires when the focus moves
focus(r, i) ==
    IF r.focused = i THEN r ELSE onFocus([ r EXCEPT !.focused = i ], i)

\* setActive that leaves the current trigger and panel as they are
setActiveKeepingCurrent(r, key, focusTrigger) ==
    IF key = "" \/ key = r.activeKey THEN r
    ELSE Then(panelMapGet(r, key), LAMBDA nextPanel :
         Then(findTrigger(r, { i \in 1 .. Len(r.keys) : r.keys[i] = key }), LAMBDA nextTrigger :
         IF nextPanel = 0 \/ nextTrigger = 0 THEN r
         ELSE Then([ r EXCEPT !.triggerActive[nextTrigger] = TRUE,
                              !.expanded[nextTrigger] = "true",
                              !.tabindex[nextTrigger] = "0",
                              !.panelActive[nextPanel] = TRUE,
                              !.hidden[nextPanel] = "false",
                              !.activeKey = key ], LAMBDA r2 :
              IF focusTrigger THEN focus(r2, nextTrigger) ELSE r2)))

\* setActive(key, { focusTrigger })
setActive(r, key, focusTrigger) ==
    IF key = "" \/ key = r.activeKey THEN r
    ELSE Then(panelMapGet(r, key), LAMBDA nextPanel :
         Then(findTrigger(r, { i \in 1 .. Len(r.keys) : r.keys[i] = key }), LAMBDA nextTrigger :
         IF nextPanel = 0 \/ nextTrigger = 0 THEN r
         ELSE Then(IF r.activeKey # NULL THEN panelMapGet(r, r.activeKey) ELSE 0, LAMBDA currentPanel :
              Then(IF r.activeKey # NULL
                   THEN findTrigger(r, { i \in 1 .. Len(r.keys) : r.keys[i] = r.activeKey })
                   ELSE 0, LAMBDA currentTrigger :
              Then(IF currentTrigger # 0
                   THEN [ r EXCEPT !.triggerActive[currentTrigger] = FALSE,
                                   !.expanded[currentTrigger] = "false",
                                   !.tabindex[currentTrigger] = "-1" ]
                   ELSE r, LAMBDA r1 :
              Then(IF currentPanel # 0
                   THEN [ r1 EXCEPT !.panelActive[currentPanel] = FALSE,
                                    !.hidden[currentPanel] = "true" ]
                   ELSE r1, LAMBDA r2 :
              Then([ r2 EXCEPT !.triggerActive[nextTrigger] = TRUE,
                               !.expanded[nextTrigger] = "true",
                               !.tabindex[nextTrigger] = "0",
                               !.panelActive[nextPanel] = TRUE,
                               !.hidden[nextPanel] = "false",
                               !.activeKey = key ], LAMBDA r3 :
              IF focusTrigger THEN focus(r3, nextTrigger) ELSE r3)))))))

\* ensureInitialState()
ensureInitialState(r) ==
    Then(IF r.activeKey \notin { NULL, "" } THEN r.activeKey ELSE r.keys[1], LAMBDA initialKey :
      [ r EXCEPT !.triggerActive = [ i \in 1 .. Len(r.keys) |-> r.keys[i] = initialKey ],
                 !.expanded = [ i \in 1 .. Len(r.keys) |->
                                  IF r.keys[i] = initialKey THEN "true" ELSE "false" ],
                 !.tabindex = [ i \in 1 .. Len(r.keys) |->
                                  IF r.keys[i] = initialKey THEN "0" ELSE "-1" ],
                 !.panelActive = [ i \in 1 .. Len(r.panelKeys) |-> r.panelKeys[i] = initialKey ],
                 !.hidden = [ i \in 1 .. Len(r.panelKeys) |->
                                  IF r.panelKeys[i] = initialKey THEN "false" ELSE "true" ],
                 !.activeKey = IF initialKey = "" THEN NULL ELSE initialKey ])

\* the click listener of trigger i
railClick(r, i) == setActive(r, r.keys[i], FALSE)

\* moveFocus(nextIndex), the index counted from 0
moveFocus(r, nextIndex) ==
    IF nextIndex + 1 \notin 1 .. Len(r.keys) THEN r ELSE focus(r, nextIndex + 1)

\* the keydown listener of trigger i, whose data-services-index is i - 1
railKeydown(r, i, key) ==
    CASE key \in { "ArrowDown", "Down" } -> moveFocus(r, ((i - 1) + 1) % Len(r.keys))
      [] key \in { "ArrowUp", "Up" } -> moveFocus(r, ((i - 1) - 1 + Len(r.keys)) % Len(r.keys))
      [] key = "Home" -> moveFocus(r, 0)
      [] key = "End" -> moveFocus(r, Len(r.keys) - 1)
      [] key \in { "Enter", " " } -> setActive(r, r.keys[i], FALSE)
      [] OTHER -> r

\* initServicesRail(), the clones of the panels measuring maxHeight
initServicesRail(r, maxHeight) ==
    IF ~r.hasSection THEN r
    ELSE IF Len(r.keys) = 0 \/ Len(r.panelKeys) = 0 THEN r
    ELSE Then(IF r.hasStack /\ maxHeight > 0 THEN [ r EXCEPT !.minHeight = maxHeight ] ELSE r,
              LAMBDA r1 :
         Then([ r1 EXCEPT !.tabindex = [ i \in 1 .. Len(r.keys) |->
                                           IF r.triggerActive[i] THEN "0" ELSE "-1" ] ], LAMBDA r2 :
         Then(findTrigger(r2, { i \in 1 .. Len(r.keys) : r.triggerActive[i] }), LAMBDA found :
         Then([ r2 EXCEPT !.activeKey = r.keys[IF found # 0 THEN found ELSE 1] ], LAMBDA r3 :
              [ ensureInitialState(r3) EXCEPT !.ready = TRUE ]))))

----------------------------------------------------------------------------
(* The startup (boot, init, initLoader).  A promise is "none" before it is
   made, then "pending", "fulfilled" or "rejected"; a reaction runs as a
   step of its own once its promise has settled. *)

\* what initLoader does on this page: the loader element is absent, its
\* promise resolves, its promise rejects, or initLoader throws
LoaderOutcomes == { "absent", "resolves", "rejects", "throws" }

\* the page before boot(): throws[k] tells whether the k-th call of init()
\* throws on its way
StartupFresh(loader, throws, hasQuerySelector, hasGSAP, hasScrollTrigger) ==
    [ loader |-> loader, throws |-> throws, hasQuerySelector |-> hasQuerySelector,
      hasGSAP |-> hasGSAP, hasScrollTrigger |-> hasScrollTrigger,
      booted |-> FALSE, loaderPromise |-> "none", thenPromise |-> "none",
      catchPromise |-> "none", initCalls |-> 0, initDuringLoader |-> FALSE,
      threw |-> FALSE, uncaught |-> FALSE,
      registered |-> FALSE, warnings |-> {}, bodyClasses |-> {},
      event |-> "none" ]

StartupOff == StartupFresh("absent", << FALSE, FALSE >>, FALSE, FALSE, FALSE)

\* init(): threw tells whether this call has thrown
init(s) ==
    Then([ s EXCEPT !.initCalls = @ + 1,
                    !.initDuringLoader = @ \/ s.loaderPromise = "pending",
                    !.threw = FALSE ], LAMBDA s1 :
      IF ~s.hasQuerySelector THEN [ s1 EXCEPT !.warnings = @ \cup { "DOM APIs unavailable" } ]
      ELSE Then(IF s.hasGSAP /\ s.hasScrollTrigger
                THEN [ s1 EXCEPT !.registered = TRUE ]
                ELSE [ s1 EXCEPT !.warnings = @ \cup { "GSAP animations skipped" } ], LAMBDA s2 :
           IF s1.initCalls <= Len(s.throws) /\ s.throws[s1.initCalls]
           THEN [ s2 EXCEPT !.threw = TRUE ]
           ELSE [ s2 EXCEPT !.bodyClasses = @ \cup { "story-ready" } ]))

\* start, the reaction boot() hands to then and to catch
start(s) == init(s)

\* boot(): every return of initLoader is a promise, so the call of start()
\* after the try is not reached
boot(s) ==
    IF s.loader = "throws"
    THEN Then(start([ s EXCEPT !.booted = TRUE ]), LAMBDA s1 :
              [ s1 EXCEPT !.uncaught = s1.threw ])
    ELSE [ s EXCEPT !.booted = TRUE,
                    !.loaderPromise = IF s.loader = "absent" THEN "fulfilled" ELSE "pending",
                    !.thenPromise = "pending",
                    !.catchPromise = "pending" ]

\* the reaction of maybePromise.then(start)
thenReaction(s) ==
    IF s.loaderPromise = "rejected" THEN [ s EXCEPT !.thenPromise = "rejected" ]
    ELSE Then(start(s), LAMBDA s1 :
              [ s1 EXCEPT !.thenPromise = IF s1.threw THEN "rejected" ELSE "fulfilled" ])

\* the reaction of .catch(start); a rejection of its promise is reported
\* and handled by nobody
catchReaction(s) ==
    IF s.thenPromise = "fulfilled" THEN [ s EXCEPT !.catchPromise = "fulfilled" ]
    ELSE Then(start(s), LAMBDA s1 :
              [ s1 EXCEPT !.catchPromise = IF s1.threw THEN "rejected" ELSE "fulfilled",
                          !.uncaught = s1.threw ])

----------------------------------------------------------------------------
(* The hero scroll video (js/veins.js, initHeroScrollVideo).  Both videos
   last VideoDuration units and a video is a record of its visibility, its
   playing and its currentTime; elapsed is performance.now() less
   state.lastInputTime, followed up to the first value above IDLE_DELAY. *)

IDLE_DELAY == 140
DELTA_THRESHOLD == 2
\* the time that passes in one step of the clock
TimeStep == 70
\* the length of the videos
VideoDuration == 2

\* the hero before initHeroScrollVideo; metadata tells of each video whether
\* its metadata is there ("ready"), comes ("later") or never comes ("never")
HeroFresh(hasVideo, hasHeader, reducedMotion, hasObserver, forwardMeta, reverseMeta, autoplay) ==
    [ hasVideo |-> hasVideo, hasHeader |-> hasHeader, reducedMotion |-> reducedMotion,
      hasObserver |-> hasObserver,
      metadata |-> [ forward |-> forwardMeta, reverse |-> reverseMeta ],
      heroScrollVideoInit |-> FALSE, metadataReady |-> FALSE,
      state |-> [ appliedDirection |-> "paused", desiredDirection |-> "paused",
                  lastScrollY |-> 0, inView |-> TRUE, rafId |-> NULL,
                  active |-> "forward", reverseReady |-> FALSE ],
      elapsed |-> 0, scrollY |-> 0, pendingTicks |-> 0,
      video |-> [ visible |-> TRUE, playing |-> autoplay, currentTime |-> 0 ],
      reverseVideo |-> [ visible |-> FALSE, playing |-> FALSE, currentTime |-> 0 ],
      listeners |-> {}, event |-> "none", input |-> << >> ]

HeroOff == HeroFresh(FALSE, FALSE, FALSE, FALSE, "never", "never", FALSE)

\* clamp(value, min, max)
heroClamp(value, min, max) == Min(max, Max(min, value))

\* mapForwardToReverseTime()
mapForwardToReverseTime(h) == heroClamp(VideoDuration - h.video.currentTime, 0, VideoDuration)

\* mapReverseToForwardTime()
mapReverseToForwardTime(h) == heroClamp(VideoDuration - h.reverseVideo.currentTime, 0, VideoDuration)

\* switchTo that leaves the other video visible
switchToKeepingVisible(h, next) ==
    IF h.state.active = next THEN h
    ELSE IF next = "reverse"
    THEN IF ~h.state.reverseReady THEN h
         ELSE [ h EXCEPT !.reverseVideo.currentTime = mapForwardToReverseTime(h),
                         !.video.playing = FALSE,
                         !.reverseVideo.visible = TRUE,
                         !.state.active = "reverse" ]
    ELSE [ h EXCEPT !.video.currentTime = mapReverseToForwardTime(h),
                    !.reverseVideo.playing = FALSE,
                    !.video.visible = TRUE,
                    !.state.active = "forward" ]

\* switchTo(next)
switchTo(h, next) ==
    IF h.state.active = next THEN h
    ELSE IF next = "reverse"
    THEN IF ~h.state.reverseReady THEN h
         ELSE [ h EXCEPT !.reverseVideo.currentTime = mapForwardToReverseTime(h),
                         !.video.playing = FALSE,
                         !.video.visible = FALSE,
                         !.reverseVideo.visible = TRUE,
                         !.state.active = "reverse" ]
    ELSE [ h EXCEPT !.video.currentTime = mapReverseToForwardTime(h),
                    !.reverseVideo.playing = FALSE,
                    !.reverseVideo.visible = FALSE,
                    !.video.visible = TRUE,
                    !.state.active = "forward" ]

\* applyDirection(direction); played tells whether play() starts the video
applyDirection(h, direction0, played) ==
    Then(IF ~h.state.inView /\ direction0 # "paused" THEN "paused" ELSE direction0, LAMBDA direction :
      IF h.state.appliedDirection = direction
      THEN Then(IF direction = "forward" /\ h.state.active # "forward"
                THEN switchTo(h, "forward") ELSE h, LAMBDA h1 :
                IF direction = "reverse" /\ h1.state.active # "reverse"
                THEN switchTo(h1, "reverse") ELSE h1)
      ELSE Then([ h EXCEPT !.state.appliedDirection = direction ], LAMBDA h1 :
           IF direction = "paused"
           THEN [ h1 EXCEPT !.video.playing = FALSE, !.reverseVideo.playing = FALSE ]
           ELSE IF direction = "forward"
           THEN [ switchTo(h1, "forward") EXCEPT !.reverseVideo.playing = FALSE,
                                                 !.video.playing = played ]
           ELSE IF ~h1.state.reverseReady
           THEN [ h1 EXCEPT !.video.playing = FALSE, !.reverseVideo.playing = FALSE ]
           ELSE [ switchTo(h1, "reverse") EXCEPT !.video.playing = FALSE,
                                                 !.reverseVideo.playing = played ]))

\* ensureTicking()
ensureTicking(h) ==
    IF h.state.rafId # NULL THEN h
    ELSE [ h EXCEPT !.state.rafId = RAF, !.pendingTicks = @ + 1 ]

\* onScroll() of the hero, window.scrollY being currentY
heroOnScroll(h, currentY) ==
    Then([ h EXCEPT !.state.lastScrollY = currentY, !.elapsed = 0 ], LAMBDA h1 :
      IF Abs(currentY - h.state.lastScrollY) < DELTA_THRESHOLD THEN ensureTicking(h1)
      ELSE ensureTicking([ h1 EXCEPT !.state.desiredDirection =
                             IF currentY - h.state.lastScrollY > 0 THEN "forward" ELSE "reverse" ]))

\* tick that goes on requesting frames when idle
tickForever(h, played) ==
    Then([ h EXCEPT !.state.rafId = NULL ], LAMBDA h1 :
      IF ~h1.state.inView THEN applyDirection(h1, "paused", played)
      ELSE Then(h1.elapsed > IDLE_DELAY, LAMBDA idle :
           Then(IF idle THEN "paused" ELSE h1.state.desiredDirection, LAMBDA targetDirection :
           [ applyDirection(h1, targetDirection, played)
               EXCEPT !.state.rafId = RAF, !.pendingTicks = @ + 1 ])))

\* tick()
tick(h, played) ==
    Then([ h EXCEPT !.state.rafId = NULL ], LAMBDA h1 :
      IF ~h1.state.inView THEN applyDirection(h1, "paused", played)
      ELSE Then(h1.elapsed > IDLE_DELAY, LAMBDA idle :
           Then(IF idle THEN "paused" ELSE h1.state.desiredDirection, LAMBDA targetDirection :
           Then(applyDirection(h1, targetDirection, played), LAMBDA h2 :
             IF ~idle \/ targetDirection # "paused"
             THEN [ h2 EXCEPT !.state.rafId = RAF, !.pendingTicks = @ + 1 ]
             ELSE h2))))

\* handleVisibilityChange(entries), each entry its isIntersecting
RECURSIVE handleVisibilityChange(_, _)
handleVisibilityChange(h, entries) ==
    IF entries = << >> THEN h
    ELSE Then([ h EXCEPT !.state.inView = Head(entries) ], LAMBDA h1 :
         handleVisibilityChange(
           IF ~h1.state.inView THEN applyDirection(h1, "paused", FALSE)
           ELSE ensureTicking([ h1 EXCEPT !.elapsed = 0 ]),
           Tail(entries)))

\* the reaction of Promise.all([forwardReady, reverseReady]): results[1]
\* is true, the reverse video being an element whenever it is waited for
metadataReady(h) ==
    [ h EXCEPT !.metadataReady = TRUE,
               !.state.reverseReady = TRUE,
               !.video = [ visible |-> TRUE, playing |-> FALSE, currentTime |-> 0 ],
               !.reverseVideo = [ visible |-> FALSE, playing |-> FALSE, currentTime |-> 0 ],
               !.listeners = @ \cup { "scroll" }
                               \cup (IF h.hasObserver THEN { "intersection" } ELSE {}) ]

\* initHeroScrollVideo(), the page being scrolled to scrollY
initHeroScrollVideo(h) ==
    IF ~h.hasVideo \/ ~h.hasHeader \/ h.reducedMotion THEN h
    ELSE IF h.heroScrollVideoInit THEN h
    ELSE [ h EXCEPT !.heroScrollVideoInit = TRUE,
                    !.reverseVideo = [ visible |-> FALSE, playing |-> FALSE, currentTime |-> 0 ],
                    !.state = [ appliedDirection |-> "paused", desiredDirection |-> "paused",
                                lastScrollY |-> h.scrollY, inView |-> TRUE, rafId |-> NULL,
                                active |-> "forward", reverseReady |-> FALSE ],
                    !.elapsed = 0 ]

\* the other components are not on the page
OthersIdle == wcu = WcuOff /\ terminal = TermOff /\ hss = HssOff
              /\ veins = VeinsOff
              /\ carousel = CarouselOff
              /\ rail = RailOff
              /\ startup = StartupOff
              /\ hero = HeroOff

----------------------------------------------------------------------------
(* Actions *)

\* the script runs initFarViewSequence() once
Boot ==
    /\ pc = "start"
    /\ pc' = "done"
    /\ \E s \in { initFarViewSequence(Cur, present, reduced, top, vp) } : Set(s)
    /\ UNCHANGED << present, reduced, top, vp >>
    /\ UNCHANGED otherVars

\* the page is scrolled: the root's rect.top changes and a scroll event is
\* dispatched to the listener, if there is one
Scroll ==
    /\ pc = "done"
    /\ \E t \in Tops :
         /\ t # top
         /\ top' = t
         /\ \E s \in { IF "scroll" \in listeners THEN onScroll(Cur, t, vp) ELSE Cur } : Set(s)
    /\ UNCHANGED << pc, present, reduced, vp >>
    /\ UNCHANGED otherVars

\* the window is resized: the stage's rect changes and a resize event is
\* dispatched to the listener, if there is one
ViewportResize ==
    /\ pc = "done"
    /\ \E v \in Viewports :
         /\ v # vp
         /\ vp' = v
    /\ \E s \in { IF "resize" \in listeners THEN onResize(Cur) ELSE Cur } : Set(s)
    /\ UNCHANGED << pc, present, reduced, top >>
    /\ UNCHANGED otherVars

\* the debounce timer fires
TimerFire ==
    /\ timeout = TIMER
    /\ UNCHANGED << pc, present, reduced, top, vp >>
    /\ UNCHANGED otherVars
    /\ \E s \in { later(Cur, vp, "offctx" \in present) } : Set(s)

\* the browser runs a queued animation-frame callback
Frame ==
    /\ pendingFrames > 0
    /\ UNCHANGED << pc, present, reduced, top, vp >>
    /\ UNCHANGED otherVars
    /\ \E s \in { render([ Cur EXCEPT !.pendingFrames = @ - 1 ]) } : Set(s)

\* the state object, the elements and the queues before the script runs
Fresh ==
    [ width |-> 0, height |-> 0, dpr |-> ONE, rafId |-> NULL,
      progress |-> 0, targetProgress |-> 0, lastLineText |-> NULL,
      planes |-> << >>, field |-> buildField(0, 0), resolve |-> NoResolve,
      dom |-> NoDom,
      canvas |-> [ width |-> 0, height |-> 0, styleWidth |-> 0, styleHeight |-> 0,
                   frame |-> NoFrame ],
      pendingFrames |-> 0, timeout |-> NULL, listeners |-> {}, thrown |-> FALSE,
      have |-> Anchors, calls |-> << >> ]

\* the variables hold the record s
Holds(s) ==
    /\ width = s.width /\ height = s.height /\ dpr = s.dpr /\ rafId = s.rafId
    /\ progress = s.progress /\ targetProgress = s.targetProgress
    /\ lastLineText = s.lastLineText /\ planes = s.planes /\ field = s.field
    /\ resolve = s.resolve /\ dom = s.dom /\ canvas = s.canvas
    /\ pendingFrames = s.pendingFrames /\ timeout = s.timeout
    /\ listeners = s.listeners /\ thrown = s.thrown /\ calls = s.calls

Init ==
    /\ pc = "start"
    /\ present \in SUBSET Anchors
    /\ reduced \in BOOLEAN
    /\ top \in Tops
    /\ vp \in Viewports
    /\ Holds(Fresh)
    /\ OthersIdle

Next == Boot \/ Scroll \/ ViewportResize \/ TimerFire \/ Frame

Spec == Init /\ [][Next]_vars

\* the page holds every node and the browser gives every context
InitComplete == Init /\ present = Anchors

\* the complete page, where the browser runs every queued animation-frame
\* callback; a pending timer may fire at any time or stay pending
FairSpec == InitComplete /\ [][Next]_vars /\ WF_vars(Frame)

----------------------------------------------------------------------------
(* One handler from a sampled state.  The running component is sampled over  *)
(* the whole range of progress, target, scroll position and layout, and one  *)
(* scroll event or one animation frame is applied to each sample.            *)

Targets == { (k * ONE) \div GridSteps : k \in 0 .. GridSteps }
Offsets == LET ds == { 0, 1, EPS - 1, EPS, EPS + 1, THRESHOLD, MAX_STEP,
                       (MAX_STEP * 100) \div EASE_PCT, (MAX_STEP * 100) \div EASE_PCT + 1,
                       ONE \div 4, ONE }
           IN  ds \cup { -d : d \in ds }

\* the component running in viewport v with the given progress and target,
\* after its last frame was painted; a frame is pending if it is still
\* converging or if pend says so
Running(v, p, target, pend) ==
    Then([ resize(Fresh, v, TRUE) EXCEPT
             !.listeners = { "scroll", "resize" },
             !.progress = p, !.targetProgress = target ], LAMBDA s0 :
    Then(setOverlay(s0, p), LAMBDA s1 :
    Then(draw(s1, p), LAMBDA s2 :
         IF pend \/ StillConverging(p, target)
         THEN [ s2 EXCEPT !.rafId = RAF, !.pendingFrames = 1, !.calls = << >> ]
         ELSE [ s2 EXCEPT !.calls = << >> ])))

StepInit ==
    /\ OthersIdle
    /\ pc = "done"
    /\ present = Anchors
    /\ reduced = FALSE
    /\ \E target \in Targets, pend \in BOOLEAN :
         \/ /\ top = 0 /\ vp = 0
            /\ \E d \in Offsets :
                 \E s \in { Running(0, clamp(target + d, 0, ONE), target, pend) } : Holds(s)
         \/ /\ top \in WideTops /\ vp \in WideViewports
            /\ \E s \in { Running(vp, target, target, pend) } : Holds(s)

ScrollWide ==
    /\ calls = << >>
    /\ \E t \in WideTops :
         /\ t # top
         /\ top' = t
         /\ \E s \in { onScroll(Cur, t, vp) } : Set(s)
    /\ UNCHANGED << pc, present, reduced, vp >>
    /\ UNCHANGED otherVars

FrameOnce ==
    /\ calls = << >>
    /\ Frame

StepNext == ScrollWide \/ FrameOnce

StepSpec == StepInit /\ [][StepNext]_vars

----------------------------------------------------------------------------
(* One frame from every value of progress.  The running component is sampled *)
(* at each progress p of the grid with its target one unit above, so that    *)
(* the pending frame snaps to p + 1 and paints the overlay for it.           *)

SweepInit ==
    /\ OthersIdle
    /\ pc = "done"
    /\ present = Anchors
    /\ reduced = FALSE
    /\ top = 0 /\ vp = 0
    /\ \E p \in 0 .. ONE - 1 : \E s \in { Running(0, p, p + 1, TRUE) } : Holds(s)

SweepNext == FrameOnce

SweepSpec == SweepInit /\ [][SweepNext]_vars

----------------------------------------------------------------------------
(* The component over the sample layouts: it boots in any of them, with or   *)
(* without a 2-D context for the offscreen canvas, and each resize event     *)
(* finds the stage unchanged or in one of two other sample layouts.  One     *)
(* resize event is taken per debounce window.                                *)

GeometryInit ==
    /\ pc = "start"
    /\ present \in { Anchors, Anchors \ { "offctx" } }
    /\ reduced = FALSE
    /\ top = 0
    /\ vp \in SizeLayouts
    /\ Holds(Fresh)
    /\ OthersIdle

ResizeSample ==
    /\ pc = "done"
    /\ timeout = NULL
    /\ \E v \in { vp, Shift(vp, 1), Shift(vp, 37) } : vp' = v
    /\ \E s \in { IF "resize" \in listeners THEN onResize(Cur) ELSE Cur } : Set(s)
    /\ UNCHANGED << pc, present, reduced, top >>
    /\ UNCHANGED otherVars

GeometryNext == Boot \/ ResizeSample \/ TimerFire \/ Frame

GeometrySpec == GeometryInit /\ [][GeometryNext]_vars

----------------------------------------------------------------------------
(* The Why-Choose-Us section alone on the page *)

\* the scroll sequence is not on the page
ViewIdle ==
    /\ pc = "start" /\ present = {} /\ reduced = FALSE /\ top = 0 /\ vp = 0
    /\ Holds(Fresh)

WcuInit ==
    /\ ViewIdle /\ terminal = TermOff /\ hss = HssOff /\ veins = VeinsOff /\ carousel = CarouselOff /\ rail = RailOff /\ startup = StartupOff /\ hero = HeroOff
    /\ \E hasSection, hasAlign \in BOOLEAN, scrolled \in WcuScrolled, range \in WcuRanges :
         wcu = WcuFresh(hasSection, hasAlign, scrolled, range)

\* the script runs initWhyChooseUs()
WcuBoot ==
    /\ ~wcu.wcuInit /\ wcu.hasSection
    /\ wcu' = initWhyChooseUs(wcu)
    /\ UNCHANGED << viewVars, terminal, hss, veins, carousel, rail, startup, hero >>

\* the page is scrolled and the scroll listener runs schedule()
WcuScroll ==
    /\ \E n \in WcuScrolled :
         /\ n # wcu.scrolled
         /\ wcu' = (IF "scroll" \in wcu.listeners THEN schedule([ wcu EXCEPT !.scrolled = n ])
                    ELSE [ wcu EXCEPT !.scrolled = n ])
    /\ UNCHANGED << viewVars, terminal, hss, veins, carousel, rail, startup, hero >>

\* the window is resized and the resize listener runs
WcuResize ==
    /\ "resize" \in wcu.listeners
    /\ wcu' = schedule([ measureHeaderOffset(wcu) EXCEPT !.needsAlign = TRUE ])
    /\ UNCHANGED << viewVars, terminal, hss, veins, carousel, rail, startup, hero >>

\* the browser runs the requested animation frame
WcuFrame ==
    /\ wcu.raf # 0
    /\ wcu' = update(wcu)
    /\ UNCHANGED << viewVars, terminal, hss, veins, carousel, rail, startup, hero >>

WcuNext == WcuBoot \/ WcuScroll \/ WcuResize \/ WcuFrame

WcuSpec == WcuInit /\ [][WcuNext]_vars

----------------------------------------------------------------------------
(* The terminal alone on the page *)

TermInit ==
    /\ ViewIdle /\ wcu = WcuOff /\ hss = HssOff /\ veins = VeinsOff /\ carousel = CarouselOff /\ rail = RailOff /\ startup = StartupOff /\ hero = HeroOff
    /\ \E nodes \in BOOLEAN : terminal = TermFresh(nodes)

\* the script runs initFarviewTerminal()
TermBoot ==
    /\ terminal.listeners = {} /\ terminal.nodes /\ terminal.event = "none"
    /\ terminal' = [ initFarviewTerminal(terminal) EXCEPT !.event = "init" ]
    /\ UNCHANGED << viewVars, wcu, hss, veins, carousel, rail, startup, hero >>

\* the user replaces the content of the input, and the input listener runs
TermInput ==
    /\ "input" \in terminal.listeners
    /\ ~terminal.thrown
    /\ \E line \in TypedLines :
         /\ line # terminal.value
         /\ terminal' = [ scheduleRender([ terminal EXCEPT !.value = line ])
                            EXCEPT !.event = "input" ]
    /\ UNCHANGED << viewVars, wcu, hss, veins, carousel, rail, startup, hero >>

\* the user presses a key in the input; no more than MaxCommands lines are
\* submitted, ArrowDown is pressed no more than MaxDown times below -1, and
\* nothing is typed after a handler has raised an error
TermKey ==
    /\ "keydown" \in terminal.listeners
    /\ ~terminal.thrown
    /\ \E key \in { "Tab", "Enter", "ArrowUp", "ArrowDown", "a" } :
         /\ key = "Enter" => Len(terminal.history) < MaxCommands
         /\ key = "ArrowDown" => terminal.historyIndex > 0 - 1 - MaxDown
         /\ terminal' = [ keydown(terminal, key) EXCEPT !.event = key ]
    /\ UNCHANGED << viewVars, wcu, hss, veins, carousel, rail, startup, hero >>

\* the browser runs the requested animation frame
TermFrame ==
    /\ terminal.frames > 0
    /\ terminal' = [ renderHint([ terminal EXCEPT !.rafPending = FALSE, !.frames = @ - 1 ])
                       EXCEPT !.event = "frame" ]
    /\ UNCHANGED << viewVars, wcu, hss, veins, carousel, rail, startup, hero >>

TermNext == TermBoot \/ TermInput \/ TermKey \/ TermFrame

TermSpec == TermInit /\ [][TermNext]_vars

----------------------------------------------------------------------------
(* The Human-Simple-Scalable section alone on the page *)

HssInit ==
    /\ ViewIdle /\ wcu = WcuOff /\ terminal = TermOff /\ veins = VeinsOff /\ carousel = CarouselOff /\ rail = RailOff /\ startup = StartupOff /\ hero = HeroOff
    /\ \E hasSection, hasBrand, hasNav \in BOOLEAN :
       \E classes \in { {}, { "is-brand-hidden", "is-sequenced" } } :
         hss = HssFresh(hasSection, hasBrand, hasNav, classes)

\* one step of the section: the event and its input are recorded
HssStep(h, event, input) ==
    /\ hss' = [ h EXCEPT !.event = event, !.input = input ]
    /\ UNCHANGED << viewVars, wcu, terminal, veins, carousel, rail, startup, hero >>

\* initAnimations calls initHumanSimpleScalable, with forceFinal under
\* reduced motion
HssBoot ==
    /\ hss.hasSection
    /\ \E forceFinal \in BOOLEAN :
         /\ hss.hssInit => ~forceFinal
         /\ HssStep(initHumanSimpleScalable(hss, forceFinal), "init", << forceFinal >>)

\* the user turns the wheel; the listener runs when it is attached
HssWheel ==
    /\ hss.hssInit
    /\ \E e \in WheelEvents :
         HssStep(IF "wheel" \in hss.listeners THEN onWheel(hss, e) ELSE hss, "wheel", << e >>)

HssKey ==
    /\ hss.hssInit
    /\ \E key \in KeyEvents :
         HssStep(IF "keydown" \in hss.listeners THEN onKeyDown(hss, key) ELSE hss,
                 "keydown", << key >>)

HssTouchStart ==
    /\ hss.hssInit
    /\ \E touches \in TouchEvents :
         HssStep(IF "touchstart" \in hss.listeners THEN onTouchStart(hss, touches) ELSE hss,
                 "touchstart", touches)

HssTouchMove ==
    /\ hss.hssInit
    /\ \E touches \in TouchEvents :
         HssStep(IF "touchmove" \in hss.listeners THEN onTouchMove(hss, touches) ELSE hss,
                 "touchmove", touches)

\* the page scrolls: the window and the section move, then maybeReset runs
HssScroll ==
    /\ hss.hssInit
    /\ \E y \in ScrollYs, inView \in BOOLEAN :
         /\ << y, inView >> # << hss.scrollY, hss.inView >>
         /\ \E h \in { [ hss EXCEPT !.scrollY = y, !.inView = inView ] } :
              HssStep(IF "scroll" \in h.listeners THEN maybeReset(h) ELSE h, "scroll", << y >>)

HssResize ==
    /\ "resize" \in hss.listeners
    /\ HssStep(hssOnResize(hss), "resize", << >>)

\* the 120 ms timer of onResize fires
HssResizeTimer ==
    /\ hss.resizeTimers > 0
    /\ HssStep(hssMeasureHeaderOffset([ hss EXCEPT !.resizeTimer = 0, !.resizeTimers = @ - 1 ]),
               "resizeTimer", << >>)

\* the 200 ms timer of triggerSequence fires
HssSequenceTimer ==
    /\ hss.sequenceTimers > 0
    /\ HssStep([ hss EXCEPT !.classes = @ \cup { "is-sequenced" }, !.sequenceTimer = 0,
                            !.sequenceTimers = @ - 1 ], "sequenceTimer", << >>)

HssNext ==
    \/ HssBoot \/ HssWheel \/ HssKey \/ HssTouchStart \/ HssTouchMove
    \/ HssScroll \/ HssResize \/ HssResizeTimer \/ HssSequenceTimer

HssSpec == HssInit /\ [][HssNext]_vars

----------------------------------------------------------------------------
(* The vein field alone on the page *)

VeinInit ==
    /\ ViewIdle /\ wcu = WcuOff /\ terminal = TermOff /\ hss = HssOff /\ carousel = CarouselOff /\ rail = RailOff /\ startup = StartupOff /\ hero = HeroOff
    /\ \E hasCanvas, hasCtx \in BOOLEAN :
       \E layout \in VeinLayouts :
         /\ hasCtx => hasCanvas
         /\ veins = VeinFresh(hasCanvas, hasCtx, layout)

\* one step of the field: the event and its input are recorded
VeinStep(v, event, input) ==
    /\ veins' = [ v EXCEPT !.event = event, !.input = input ]
    /\ UNCHANGED << viewVars, wcu, terminal, hss, carousel, rail, startup, hero >>

\* the document is ready: initVeinCanvas runs, once
VeinBoot ==
    /\ veins.event = "none"
    /\ \E seed \in VeinSeeds :
         VeinStep(initVeinCanvas(veins, seed, 1000), "init", << seed >>)

\* a frame fires: renderLoop runs with the timestamp of the frame
VeinFrame ==
    /\ veins.pendingFrames > 0
    /\ veins.frames < MaxFrames
    /\ \E dt \in FrameSteps :
         VeinStep(renderLoop([ veins EXCEPT !.pendingFrames = @ - 1, !.frames = @ + 1 ],
                             veins.lastTime + dt),
                  "frame", << veins.lastTime + dt >>)

\* the window is resized; the listener runs when init() has added it
VeinResize ==
    /\ veins.event # "none"
    /\ \E layout \in VeinLayouts, seed \in VeinSeeds :
         /\ "resize" \notin veins.listeners => seed = 0
         /\ VeinStep(IF "resize" \in veins.listeners
                     THEN handleResize([ veins EXCEPT !.window = layout ], seed)
                     ELSE [ veins EXCEPT !.window = layout ],
                     "resize", << seed >>)

VeinNext == VeinBoot \/ VeinFrame \/ VeinResize

VeinSpec == VeinInit /\ [][VeinNext]_vars

----------------------------------------------------------------------------
(* The testimonial carousel alone on the page *)

CarouselInit ==
    /\ ViewIdle /\ wcu = WcuOff /\ terminal = TermOff /\ hss = HssOff /\ veins = VeinsOff /\ rail = RailOff /\ startup = StartupOff /\ hero = HeroOff
    /\ \E hasSection, hasStage, hasFields, hasButtons, reducedMotion \in BOOLEAN :
       \E count \in { 0, 1, 3 } :
       \E templates \in { 0 .. count - 1, 0 .. count - 2 } :
         /\ ~hasSection => (~hasStage /\ ~hasFields /\ ~hasButtons /\ count = 0)
         /\ carousel = CarouselFresh(hasSection, hasStage, hasFields, count, hasButtons,
                                     templates, reducedMotion)

\* one step of the carousel: the event and its input are recorded
CarouselStep(c, event, input) ==
    /\ carousel' = [ c EXCEPT !.event = event, !.input = input ]
    /\ UNCHANGED << viewVars, wcu, terminal, hss, veins, rail, startup, hero >>

\* the heights the clones of the stories measure to: none in a hidden stage
StageHeights == { 0, 240 }

\* a request is followed while switches and frames are left
CarouselFollowed ==
    carousel.timerIds < MaxSwitches /\ carousel.pendingFrames < MaxSwitches

\* init() calls initSignalScan, once
CarouselBoot ==
    /\ carousel.event = "none"
    /\ \E maxHeight \in StageHeights :
         CarouselStep(initSignalScan(carousel, maxHeight), "init", << maxHeight >>)

CarouselClickPrev ==
    /\ "prev" \in carousel.listeners /\ CarouselFollowed
    /\ CarouselStep(goPrev(carousel), "prev", << >>)

CarouselClickNext ==
    /\ "next" \in carousel.listeners /\ CarouselFollowed
    /\ CarouselStep(goNext(carousel), "next", << >>)

CarouselKey ==
    /\ "keydown" \in carousel.listeners /\ CarouselFollowed
    /\ \E key \in { "ArrowLeft", "ArrowRight", "Enter" } :
         CarouselStep(signalKeydown(carousel, key), "keydown", << key >>)

\* 180 ms have passed since a switch started and its timer is still set
CarouselSwitchTimer ==
    \E t \in carousel.timers :
      CarouselStep(switchTimeout(carousel, t), "switchTimer", << t.id >>)

\* a frame fires: the callback of updatePerspective runs
CarouselFrame ==
    /\ carousel.pendingFrames > 0
    /\ CarouselStep([ carousel EXCEPT !.pendingFrames = @ - 1,
                                      !.perspectiveClasses = @ \ { "is-updating" } ],
                    "frame", << >>)

\* the page is about to unload, and the user stays on it
CarouselBeforeUnload ==
    /\ "beforeunload" \in carousel.listeners
    /\ CarouselStep(clearTimers(carousel), "beforeunload", << >>)

\* the window is resized: the debounced stabilizeStageHeight restarts its
\* timer
CarouselResize ==
    /\ "resize" \in carousel.listeners
    /\ CarouselStep([ carousel EXCEPT !.resizeTimers = 1 ], "resize", << >>)

CarouselResizeTimer ==
    /\ carousel.resizeTimers > 0
    /\ \E maxHeight \in StageHeights :
         CarouselStep(stabilizeStageHeight([ carousel EXCEPT !.resizeTimers = 0 ], maxHeight),
                      "resizeTimer", << maxHeight >>)

CarouselNext ==
    \/ CarouselBoot \/ CarouselClickPrev \/ CarouselClickNext \/ CarouselKey \/ CarouselSwitchTimer
    \/ CarouselFrame \/ CarouselBeforeUnload \/ CarouselResize \/ CarouselResizeTimer

CarouselSpec == CarouselInit /\ [][CarouselNext]_vars

----------------------------------------------------------------------------
(* The services rail alone on the page *)

\* the keys of the triggers and of the panels in the markup
RailTriggerKeys == { << >>, << "a" >>, << "a", "b", "c" >>, << "a", "a", "b" >>, << "", "a", "b" >> }
RailPanelKeys == { << >>, << "a", "b" >>, << "a", "b", "c" >>, << "", "a", "b" >>,
                   << "a", "a", "b", "c" >> }

RailInit ==
    /\ ViewIdle /\ wcu = WcuOff /\ terminal = TermOff /\ hss = HssOff /\ veins = VeinsOff /\ carousel = CarouselOff /\ startup = StartupOff /\ hero = HeroOff
    /\ \E hasSection, hasStack \in BOOLEAN :
       \E keys \in RailTriggerKeys, panelKeys \in RailPanelKeys :
       \E markupActive \in { {}, { 2 }, { 1, 3 } } :
         /\ ~hasSection => (~hasStack /\ keys = << >> /\ panelKeys = << >>)
         /\ markupActive \subseteq 1 .. Len(keys)
         /\ rail = RailFresh(hasSection, hasStack, keys, panelKeys, markupActive)

\* one step of the rail: the event and its input are recorded
RailStep(r, event, input) ==
    /\ rail' = [ r EXCEPT !.event = event, !.input = input ]
    /\ UNCHANGED << viewVars, wcu, terminal, hss, veins, carousel, startup, hero >>

\* init() calls initServicesRail, once
RailBoot ==
    /\ rail.event = "none"
    /\ \E maxHeight \in { 0, 320 } :
         RailStep(initServicesRail(rail, maxHeight), "init", << maxHeight >>)

\* the user moves the focus to trigger i, with the Tab key or a pointer
RailFocus ==
    /\ rail.ready
    /\ \E i \in 1 .. Len(rail.keys) :
         /\ rail.focused # i
         /\ RailStep(focus(rail, i), "focus", << i >>)

\* the focus leaves the rail
RailBlur ==
    /\ rail.ready /\ rail.focused # 0
    /\ RailStep([ rail EXCEPT !.focused = 0 ], "blur", << >>)

\* trigger i is clicked; the click of a pointer moves the focus to the
\* trigger first where the browser does so, a click() call never does
RailClick ==
    /\ rail.ready
    /\ \E i \in 1 .. Len(rail.keys), focusing \in BOOLEAN :
         RailStep(railClick(IF focusing THEN focus(rail, i) ELSE rail, i),
                  "click", << i, focusing >>)

\* a key goes down on the trigger that has the focus
RailKey ==
    /\ rail.ready /\ rail.focused # 0
    /\ \E key \in { "ArrowDown", "ArrowUp", "Home", "End", "Enter", " ", "a" } :
         RailStep(railKeydown(rail, rail.focused, key), "keydown", << rail.focused, key >>)

RailNext == RailBoot \/ RailFocus \/ RailBlur \/ RailClick \/ RailKey

RailSpec == RailInit /\ [][RailNext]_vars

----------------------------------------------------------------------------
(* The startup alone *)

StartupInit ==
    /\ ViewIdle /\ wcu = WcuOff /\ terminal = TermOff /\ hss = HssOff /\ veins = VeinsOff /\ carousel = CarouselOff /\ rail = RailOff /\ hero = HeroOff
    /\ \E loader \in LoaderOutcomes :
       \E throwsFirst, throwsSecond, hasQuerySelector, hasGSAP, hasScrollTrigger \in BOOLEAN :
         startup = StartupFresh(loader, << throwsFirst, throwsSecond >>,
                                hasQuerySelector, hasGSAP, hasScrollTrigger)

\* one step of the startup: the event is recorded
StartupStep(s, event) ==
    /\ startup' = [ s EXCEPT !.event = event ]
    /\ UNCHANGED << viewVars, wcu, terminal, hss, veins, carousel, rail, hero >>

\* the DOM is ready: boot() runs, once
StartupBoot ==
    /\ ~startup.booted
    /\ StartupStep(boot(startup), "boot")

\* the promise of the loader settles
StartupSettle ==
    /\ startup.loaderPromise = "pending"
    /\ StartupStep([ startup EXCEPT !.loaderPromise =
                       IF startup.loader = "rejects" THEN "rejected" ELSE "fulfilled" ],
                   "settle")

StartupThen ==
    /\ startup.loaderPromise \in { "fulfilled", "rejected" }
    /\ startup.thenPromise = "pending"
    /\ StartupStep(thenReaction(startup), "then")

StartupCatch ==
    /\ startup.thenPromise \in { "fulfilled", "rejected" }
    /\ startup.catchPromise = "pending"
    /\ StartupStep(catchReaction(startup), "catch")

StartupNext == StartupBoot \/ StartupSettle \/ StartupThen \/ StartupCatch

StartupSpec == StartupInit /\ [][StartupNext]_vars

----------------------------------------------------------------------------
(* The hero scroll video alone on the page *)

\* the positions the window is scrolled to
HeroScrollYs == { 0, 1, 3 }

HeroInit ==
    /\ ViewIdle /\ wcu = WcuOff /\ terminal = TermOff /\ hss = HssOff /\ veins = VeinsOff /\ carousel = CarouselOff /\ rail = RailOff /\ startup = StartupOff
    /\ \E hasVideo, hasHeader, reducedMotion, hasObserver, autoplay \in BOOLEAN :
       \E forwardMeta \in { "ready", "later" }, reverseMeta \in { "ready", "later", "never" } :
         /\ ~hasVideo => (~autoplay /\ forwardMeta = "later")
         /\ (~hasVideo \/ ~hasHeader \/ reducedMotion) => (~hasObserver /\ reverseMeta = "never")
         /\ hero = HeroFresh(hasVideo, hasHeader, reducedMotion, hasObserver,
                             forwardMeta, reverseMeta, autoplay)

\* one step of the hero: the event and its input are recorded
HeroStep(h, event, input) ==
    /\ hero' = [ h EXCEPT !.event = event, !.input = input ]
    /\ UNCHANGED << viewVars, wcu, terminal, hss, veins, carousel, rail, startup >>

\* the document is ready: initHeroScrollVideo runs, once
HeroBoot ==
    /\ hero.event = "none"
    /\ HeroStep(initHeroScrollVideo(hero), "init", << >>)

\* loadedmetadata fires on one of the videos
HeroMetadata ==
    /\ hero.heroScrollVideoInit
    /\ \E v \in { "forward", "reverse" } :
         /\ hero.metadata[v] = "later"
         /\ HeroStep([ hero EXCEPT !.metadata[v] = "ready" ], "loadedmetadata", << v >>)

\* both promises are fulfilled: the reaction of Promise.all runs
HeroReady ==
    /\ hero.heroScrollVideoInit /\ ~hero.metadataReady
    /\ hero.metadata.forward = "ready" /\ hero.metadata.reverse = "ready"
    /\ HeroStep(metadataReady(hero), "ready", << >>)

\* the window is scrolled; the listener runs once it is added
HeroScroll ==
    /\ hero.event # "none"
    /\ \E y \in HeroScrollYs \ { hero.scrollY } :
         HeroStep(IF "scroll" \in hero.listeners
                  THEN heroOnScroll([ hero EXCEPT !.scrollY = y ], y)
                  ELSE [ hero EXCEPT !.scrollY = y ],
                  "scroll", << y >>)

\* a frame fires: the tick that was requested runs
HeroTick ==
    /\ hero.pendingTicks > 0
    /\ \E played \in BOOLEAN :
         HeroStep(tick([ hero EXCEPT !.pendingTicks = @ - 1 ], played), "tick", << played >>)

\* the observer reports the header crossing its threshold
HeroVisibility ==
    /\ "intersection" \in hero.listeners
    /\ \E entries \in { << TRUE >>, << FALSE >>, << FALSE, TRUE >>, << TRUE, FALSE >> } :
         HeroStep(handleVisibilityChange(hero, entries), "visibility", entries)

\* time passes
HeroTime ==
    /\ hero.heroScrollVideoInit
    /\ hero.elapsed <= IDLE_DELAY
    /\ HeroStep([ hero EXCEPT !.elapsed = @ + TimeStep ], "time", << >>)

\* a playing video moves on, up to its end
HeroPlayback ==
    \/ /\ hero.video.playing /\ hero.video.currentTime < VideoDuration
       /\ HeroStep([ hero EXCEPT !.video.currentTime = @ + 1 ], "playback", << "forward" >>)
    \/ /\ hero.reverseVideo.playing /\ hero.reverseVideo.currentTime < VideoDuration
       /\ HeroStep([ hero EXCEPT !.reverseVideo.currentTime = @ + 1 ], "playback", << "reverse" >>)

HeroNext ==
    \/ HeroBoot \/ HeroMetadata \/ HeroReady \/ HeroScroll \/ HeroTick
    \/ HeroVisibility \/ HeroTime \/ HeroPlayback

HeroSpec == HeroInit /\ [][HeroNext]_vars

\* frames keep firing
HeroFairSpec == HeroSpec /\ WF_vars(HeroTick)

----------------------------------------------------------------------------
(* Properties *)

\* the handler that ran last was fn
Ran(fn) == calls # << >> /\ calls[1].fn = fn
\* the handler that ran last called fn
DidCall(fn) == \E i \in 1 .. Len(calls) : calls[i].fn = fn
\* the same of the handler of the step being taken
Runs(fn) == calls' # << >> /\ calls'[1].fn = fn

\* -top / max(1, offsetHeight - viewportHeight) clamped to [0,1], for the
\* present scroll position and layout
ClampedRaw ==
    LET vh    == IF InnerHeight(vp) # 0 THEN InnerHeight(vp) ELSE height
        total == IF OffsetHeight(vp) - vh >= 1 THEN OffsetHeight(vp) - vh ELSE 1
        raw   == RoundDiv((-top) * SCALE, total)
    IN  IF raw < 0 THEN 0 ELSE IF raw > ONE THEN ONE ELSE raw

\* C1: targetProgress and progress lie in [0,1] in every state, and a scroll
\* handler that stores a target stores the clamped quotient
C1_ProgressInUnitInterval ==
    /\ targetProgress \in 0 .. ONE
    /\ progress \in 0 .. ONE
    /\ (Ran("onScroll") /\ DidCall("requestRender")) => targetProgress = ClampedRaw

\* C1 witness: with a root shorter than the viewport and far above it, the
\* scroll handler stored 1
C1_Witness ==
    /\ vp = ShortRoot /\ top = FarAbove
    /\ Ran("onScroll") /\ DidCall("requestRender")
    /\ targetProgress = ONE

\* C2: one render step never overshoots: the remaining distance keeps its
\* sign, does not grow, and shrinks whenever it was above EPS
C2_NoOvershoot ==
    [][ Runs("render") =>
          LET before == targetProgress - progress
              after  == targetProgress' - progress'
          IN  /\ (before >= 0 => after >= 0)
              /\ (before <= 0 => after <= 0)
              /\ Abs(after) <= Abs(before)
              /\ (Abs(before) > EPS => Abs(after) < Abs(before)) ]_vars

\* C2 witness: a render step took the clamped eased branch (more than five
\* maximal steps remain after it)
C2_Witness ==
    /\ Ran("render")
    /\ Abs(targetProgress - progress) > 5 * MAX_STEP

\* no frame is pending and progress is within EPS of the target
Idle == rafId = NULL /\ pendingFrames = 0 /\ Abs(targetProgress - progress) <= EPS

\* C3: once the target and the viewport stop changing, finitely many frames
\* bring progress within EPS of the target and the loop stops for good; a
\* scroll handler that changes the target schedules a frame
C3_ConvergesToIdle ==
    /\ (<>[][targetProgress' = targetProgress /\ vp' = vp]_vars) => <>[]Idle
    /\ [][ (Runs("onScroll") /\ targetProgress' # targetProgress)
             => (rafId' = RAF /\ pendingFrames' = 1) ]_vars

\* C3 witness: the last frame reached a target above 0 and left nothing pending
C3_Witness ==
    /\ Ran("render") /\ ~DidCall("requestRender")
    /\ Idle /\ progress = targetProgress /\ targetProgress > 0
    /\ "scroll" \in listeners

\* number of calls of fn made by the handler that ran last
CallCount(fn) == Cardinality({ i \in 1 .. Len(calls) : calls[i].fn = fn })
\* the component is running in normal mode
Live == "scroll" \in listeners

\* C4: in normal mode draw() and setOverlay() are called only by render(),
\* render() runs only as a frame callback requested by an earlier step, and
\* the scroll and resize handlers leave the overlay alone
C4_DrawOnlyInFrames ==
    /\ [](Live => ((DidCall("draw") \/ DidCall("setOverlay")) => Ran("render")))
    /\ [][ Runs("render") => (rafId = RAF /\ pendingFrames > 0) ]_vars
    /\ [][ (Runs("onScroll") \/ Runs("onResize") \/ Runs("later"))
             => (dom' = dom /\ lastLineText' = lastLineText /\ progress' = progress) ]_vars

\* C4 witness: a frame callback painted after a scroll handler asked for it
C4_Witness == Live /\ Ran("render") /\ DidCall("draw") /\ targetProgress > 0

\* the frame on the canvas was painted with the size and the geometry of the
\* stage's present size
GeometryCurrent ==
    LET w == StateWidth(vp)
        h == StateHeight(vp)
        f == canvas.frame
    IN  /\ f.width = w /\ f.height = h
        /\ f.field = buildField(w, h)
        /\ f.planes = buildPlanes(w, h)
        /\ f.resolve = buildResolveTargets(f.resolve, w, h, "offctx" \in present,
                                            TextPixels(vp))

\* C5 as claimed: every draw() paints with the geometry of the present size
C5_DrawsCurrentGeometry == DidCall("draw") => GeometryCurrent

\* C5 amended: every draw() that runs while no debounce timer is pending
\* paints with the geometry of the present size
C5_DrawsCurrentGeometryWhenSettled ==
    (DidCall("draw") /\ timeout = NULL) => GeometryCurrent

\* C5 witness: the target was set in viewport 0, the window was resized to
\* viewport 1, the timer fired and a frame painted with the new size
C5_Witness ==
    /\ vp = 1 /\ timeout = NULL /\ Ran("render") /\ DidCall("draw")
    /\ canvas.frame.width = StateWidth(1)
    /\ targetProgress = getScrollProgress(-MaxScroll, OffsetHeight(0), InnerHeight(0),
                                          StateHeight(0))

\* initFarViewSequence() ran to its reduced-motion branch
Static == reduced /\ pc = "done" /\ Required \subseteq present

\* C6: under reduced motion init draws once, with 1, sets progress and target
\* to 1, registers no listener and requests no frame; afterwards nothing is
\* called or painted, whatever scroll or resize events occur
C6_ReducedMotionStatic ==
    /\ [](Static =>
            /\ progress = ONE /\ targetProgress = ONE
            /\ listeners = {} /\ rafId = NULL /\ pendingFrames = 0 /\ timeout = NULL
            /\ canvas.frame.p = ONE
            /\ \/ calls = << >>
               \/ /\ CallCount("draw") = 1
                  /\ \A i \in 1 .. Len(calls) : calls[i].fn = "draw" => calls[i].arg = ONE
                  /\ CallCount("requestAnimationFrame") = 0
                  /\ CallCount("addEventListener") = 0)
    /\ [][ Static => (calls' = << >> /\ canvas' = canvas /\ dom' = dom /\ rafId' = NULL) ]_vars

\* C6 witness: a scroll or resize event came after the static frame was painted
C6_Witness == Static /\ calls = << >> /\ canvas.frame.p = ONE /\ top # 0 /\ vp # 0

\* C7 as claimed: the overlay left by the reduced-motion branch is the one
\* setOverlay(1) leaves, and the frame is draw(1)
C7_StaticIsFinalFrame ==
    Static =>
      LET final == setOverlay(Cur, ONE).dom
      IN  /\ dom.lineText = final.lineText
          /\ dom.lineOpacity = final.lineOpacity
          /\ dom.kickerOpacity = final.kickerOpacity
          /\ dom.finalOpacity = final.finalOpacity
          /\ dom.reveal = final.reveal
          /\ canvas.frame.p = ONE

\* C8: with a required node or the 2-D context missing, init returns without
\* an error and leaves everything as it was
C8_MissingAnchorNoOp ==
    (pc = "done" /\ ~(Required \subseteq present)) => (~thrown /\ Holds(Fresh))

\* C8 witness: init returned on a page where only the 2-D context is missing
C8_Witness == pc = "done" /\ present = Anchors \ { "ctx" }

\* C9 as claimed: a frame is pending exactly when progress is farther than
\* EPS from the target
C9_PendingIffConverging ==
    Live => ((rafId # NULL) <=> (Abs(targetProgress - progress) > EPS))

\* C9 amended: whenever progress is farther than EPS from the target a frame
\* is pending (idle implies converged); one callback is queued exactly when
\* rafId is set
C9_ConvergingImpliesPending ==
    Live => /\ (Abs(targetProgress - progress) > EPS => rafId = RAF)
            /\ (rafId = NULL => Abs(targetProgress - progress) <= EPS)
            /\ pendingFrames = (IF rafId = NULL THEN 0 ELSE 1)

\* C9 witness: a frame moved progress, is still farther than EPS from the
\* target and asked for the next frame
C9_Witness ==
    /\ Live /\ Ran("render") /\ DidCall("requestAnimationFrame")
    /\ Abs(targetProgress - progress) > EPS /\ rafId = RAF

\* C10 as claimed: the scroll handler stores the new value only when it
\* differs from the target by more than the threshold
C10_UpdatesOnlyAboveThreshold ==
    [][ (Runs("onScroll") /\ targetProgress' # targetProgress)
          => Abs(targetProgress' - targetProgress) > THRESHOLD ]_vars

\* C10 amended: the scroll handler stores the new value and requests a render
\* exactly when it differs from the target by at least the threshold, and
\* otherwise changes nothing; afterwards the target is within the threshold
\* of the value computed
C10_UpdatesFromThreshold ==
    [][ Runs("onScroll") =>
          /\ IF Abs(ClampedRaw' - targetProgress) >= THRESHOLD
             THEN targetProgress' = ClampedRaw' /\ rafId' = RAF /\ pendingFrames' = 1
             ELSE UNCHANGED << targetProgress, rafId, pendingFrames >>
          /\ progress' = progress
          /\ Abs(targetProgress' - ClampedRaw') < THRESHOLD ]_vars

\* C10 witness: the scroll handler stored a value exactly one threshold away
\* from the value on screen
C10_Witness ==
    /\ Ran("onScroll") /\ DidCall("requestRender")
    /\ targetProgress = ClampedRaw
    /\ Abs(targetProgress - progress) = THRESHOLD

\* the caption-line opacity of statement k when the overlay is set for p
Shown(k, p) == IF ActiveStatement(p) = k THEN ActiveLine(p).alpha ELSE 0

\* C11: the caption line on screen is the one setOverlay computes for the
\* progress; a statement's opacity is 0 outside its window and at both ends
\* of it, 1 between the two fades, never falls during the fade-in and never
\* rises during the fade-out; at most one statement is visible, and at a
\* shared boundary the line has opacity 0
C11_CaptionFades ==
    /\ [](LET line == ActiveLine(progress)
          IN  /\ dom.lineOpacity = String(line.alpha)
              /\ dom.lineText = line.text /\ lastLineText = line.text
              /\ line.alpha \in 0 .. ONE
              /\ Cardinality({ k \in 1 .. Len(statements) : Shown(k, progress) > 0 }) <= 1
              /\ \A k \in 1 .. Len(statements) :
                   LET st == statements[k]
                   IN  /\ (progress < st.start \/ progress > st.end) => Shown(k, progress) = 0
                       /\ progress \in { st.start, st.end } => Shown(k, progress) = 0
                       /\ (st.start + FADE <= progress /\ progress <= st.end - FADE)
                            => (Shown(k, progress) = ONE /\ line.text = st.text))
    /\ [][ \A k \in 1 .. Len(statements) :
             LET st == statements[k]
             IN  /\ (st.start <= progress /\ progress < progress' /\ progress' <= st.start + FADE)
                      => Shown(k, progress') >= Shown(k, progress)
                 /\ (st.end - FADE <= progress /\ progress < progress' /\ progress' <= st.end)
                      => Shown(k, progress') <= Shown(k, progress) ]_vars

\* C11 witness: a frame painted the overlay at the boundary 0.45 shared by
\* the fourth and the fifth statement: the fourth is the line, with opacity 0
C11_Witness ==
    /\ Ran("render") /\ progress = Lit(450)
    /\ lastLineText = statements[4].text /\ dom.lineOpacity = "0"

\* C12: a scroll handler that stores a target stores
\* clamp(-top / max(1, rootHeight - viewportHeight), 0, 1); with a root of
\* 2000 px in a viewport of 1000 px and the root's top at -500 that is 0.5,
\* and a frame painted at 0.5 has finished the first act, is inside the
\* second and has not begun the third and the fourth
C12_ExampleScroll ==
    /\ (Ran("onScroll") /\ DidCall("requestRender")) => targetProgress = ClampedRaw
    /\ (vp = ExampleRoot /\ top = -500 /\ Ran("onScroll") /\ DidCall("requestRender"))
         => targetProgress = ONE \div 2
    /\ (Ran("render") /\ progress = ONE \div 2)
         => /\ canvas.frame.p = ONE \div 2
            /\ canvas.frame.acts[1] = ONE
            /\ canvas.frame.acts[2] > 0 /\ canvas.frame.acts[2] < ONE
            /\ canvas.frame.acts[3] = 0 /\ canvas.frame.acts[4] = 0

\* C12 witness: in the example layout the scroll handler ran with the root's
\* top at -500 and stored 0.5
C12_Witness ==
    /\ vp = ExampleRoot /\ top = -500 /\ OffsetHeight(vp) = 2000 /\ InnerHeight(vp) = 1000
    /\ Ran("onScroll") /\ DidCall("requestRender")
    /\ targetProgress = ONE \div 2

\* C13: after resize() the width and the height are the floors of the
\* stage's, at least 1, and the field has
\* max(140, min(260, floor(width * height / 9000))) dots, between 140 and 260
C13_FieldCount ==
    (pc = "done" /\ Required \subseteq present) =>
        /\ width >= 1 /\ height >= 1
        /\ timeout = NULL =>
             /\ width * 10 <= Max(10, StageWidth(vp)) /\ StageWidth(vp) < (width + 1) * 10
             /\ height * 10 <= Max(10, StageHeight(vp)) /\ StageHeight(vp) < (height + 1) * 10
        /\ field.count >= 140 /\ field.count <= 260
        /\ field.count = Max(140, Min(260, (width * height) \div 9000))
        /\ field.width = width /\ field.height = height

\* C13 witness: the timer callback resized to a stage of 2560.9 x 1440.7 px,
\* whose field is limited to 260 dots
C13_Witness ==
    /\ Ran("later") /\ width = 2560 /\ height = 1440
    /\ StageWidth(vp) = 25609 /\ StageHeight(vp) = 14407
    /\ field.count = 260

\* the state was built by resize() for the stage size, the pixel ratio and
\* the text rasterisation of layout v
BuiltFor(v) ==
    /\ width = StateWidth(v) /\ height = StateHeight(v) /\ dpr = StateDpr(v)
    /\ resolve.offctx # NULL =>
         resolve.samples = Min(TextPixels(v), CeilDiv(resolve.w, resolve.step)
                                              * CeilDiv(resolve.h, resolve.step))

\* a second resize() for an unchanged layout leaves field, planes, resolve
\* and the canvas size as they were
SecondResizeSame ==
    /\ field' = field /\ planes' = planes /\ resolve' = resolve
    /\ width' = width /\ height' = height /\ dpr' = dpr
    /\ canvas'.width = canvas.width /\ canvas'.height = canvas.height

\* C14 as claimed: a resize() that follows a resize() for the same stage
\* size, pixel ratio and rasterisation yields the same field, planes and
\* resolve, and creates neither a canvas nor a context
C14_ResizeIdempotent ==
    [][ (Runs("later") /\ BuiltFor(vp))
          => /\ SecondResizeSame
             /\ \A i \in 1 .. Len(calls') : calls'[i].fn \notin { "createElement", "getContext" } ]_vars

\* the same where the offscreen canvas gave a 2-D context
ResizeIdempotentWithContext ==
    [][ (Runs("later") /\ BuiltFor(vp))
          => /\ SecondResizeSame
             /\ "offctx" \in present =>
                  \A i \in 1 .. Len(calls') : calls'[i].fn \notin { "createElement", "getContext" } ]_vars

\* C18: the targets kept are at most the cap (520 below a width of 700, 760
\* otherwise), all n samples when n is at most the cap, and otherwise the
\* samples whose index is a multiple of ceil(n / cap); there is one
\* particle per target
C18_TargetsCapped ==
    resolve.offctx # NULL =>
        LET n   == resolve.samples
            cap == IF width < 700 THEN 520 ELSE 760
        IN  /\ resolve.cap = cap
            /\ resolve.targets.count <= cap
            /\ n <= cap => (resolve.targets.count = n /\ resolve.targets.every = 1)
            /\ n > cap =>
                 LET k == CHOOSE j \in 1 .. n : j * cap >= n /\ (j - 1) * cap < n
                 IN  /\ resolve.targets.every = k
                     /\ resolve.targets.count = Cardinality({ i \in 0 .. n - 1 : i % k = 0 })
            /\ resolve.particles.count = resolve.targets.count

\* C18 witness: 1520 sampled text pixels were trimmed to every second one,
\* which is exactly the cap of 760
C18_Witness ==
    /\ Ran("later") /\ width >= 700
    /\ resolve.samples = 1520 /\ resolve.targets = [count |-> 760, every |-> 2]

\* floor(t * 4) capped to 3
FloorPhase(t) == Min(3, FloorDiv(4 * t, WONE))

\* t * 4 is on a phase boundary 1, 2 or 3, or less than 1e-6 above it
OnBoundary(t) == \E b \in 1 .. 3 : 4 * t - b * WONE \in 0 .. PHASE_EPS - 1

\* C15 as claimed: after update() the phase index is floor(t * 4) capped to
\* 3, it is one of 0, 1, 2, 3, and the local progress is in [0, 1]
C15_PhaseIsFloor ==
    wcu.updates > 0 =>
        /\ wcu.activeIndex = FloorPhase(wcu.t)
        /\ wcu.activeIndex \in 0 .. 3
        /\ wcu.local \in 0 .. WONE

\* C15: after update() the phase index is floor(t * 4) capped to 3, except
\* that a t * 4 on a phase boundary 1, 2 or 3 (or less than 1e-6 above it)
\* belongs to the phase below, where the local progress on the boundary is
\* 1; the index is one of 0, 1, 2, 3 and the local progress is in [0, 1]
C15_PhaseIsFloorBelowBoundary ==
    wcu.updates > 0 =>
        /\ wcu.activeIndex = IF OnBoundary(wcu.t) THEN FloorPhase(wcu.t) - 1
                              ELSE FloorPhase(wcu.t)
        /\ \A b \in 1 .. 3 : 4 * wcu.t = b * WONE => wcu.local = WONE
        /\ wcu.activeIndex \in 0 .. 3
        /\ wcu.local \in 0 .. WONE

\* update() has run at t = 0.5: phase 1 at local progress 1
C15_Witness ==
    /\ wcu.updates > 0 /\ wcu.t = WONE \div 2
    /\ wcu.activeIndex = 1 /\ wcu.local = WONE

\* C17: the geometry (width, height, dpr, field, planes, resolve) is written
\* only by resize(): a step that changes it has called resize(); a scroll
\* event or a frame, with the requestRender, setOverlay and draw they call,
\* leaves it unchanged; and a frame changes only progress, rafId,
\* lastLineText and what is rendered (the overlay and the canvas)
C17_GeometryOnlyByResize ==
    [][ /\ geomVars' # geomVars => DidCall("resize")'
        /\ (Runs("onScroll") \/ Runs("render")) => UNCHANGED geomVars
        /\ Runs("render") =>
              /\ ~DidCall("resize")'
              /\ UNCHANGED << targetProgress, timeout, listeners, envVars, pc >> ]_vars

\* C17 witness: a frame has drawn particles and the geometry it drew from is
\* still the geometry in the state
C17_Witness ==
    /\ Live /\ Ran("render") /\ DidCall("setOverlay") /\ DidCall("draw")
    /\ resolve.particles.count > 0 /\ field.count > 0
    /\ canvas.frame.resolve = resolve /\ canvas.frame.field = field

\* C19: at most one render callback is pending, and one is pending exactly
\* when rafId is set; a step asks for an animation frame at most once and
\* only when rafId was null or the step is the frame itself, which cleared
\* rafId first; scroll and resize events that find a frame pending leave
\* that one frame pending; and a frame consumes the pending callback and
\* leaves one pending exactly when it has not converged
C19_OneRenderPending ==
    /\ [](pendingFrames <= 1 /\ (pendingFrames = 1 <=> rafId = RAF))
    /\ [][ /\ DidCall("requestAnimationFrame")' =>
                 /\ rafId = NULL \/ Runs("render")
                 /\ CallCount("requestAnimationFrame")' = 1
           /\ (~Runs("render") /\ rafId = RAF) =>
                 /\ ~DidCall("requestAnimationFrame")'
                 /\ UNCHANGED << rafId, pendingFrames >>
           /\ Runs("render") =>
                 /\ pendingFrames = 1
                 /\ calls'[1] = Call("render", NoArg)
                 /\ pendingFrames' = (IF Abs(targetProgress' - progress') > EPS THEN 1 ELSE 0) ]_vars

\* C19 witness: scroll events arrived while a frame was pending, and still
\* one callback is pending
C19_Witness ==
    /\ Live /\ Ran("onScroll") /\ DidCall("requestRender")
    /\ ~DidCall("requestAnimationFrame")
    /\ rafId = RAF /\ pendingFrames = 1 /\ progress # targetProgress

\* the names of the eight commands
OwnKeys == { commandKeys[i] : i \in 1 .. Len(commandKeys) }

\* what an Enter step does to a submitted line: one whose first word,
\* lower-cased, is a command name adds the echo and that command's lines
\* ('clear' empties the output); any other non-empty line adds the echo and
\* 'Command not found', and raises no error; an empty line changes neither
\* output nor history
EnterAsClaimed ==
          LET cmd  == trim(terminal.value)
              key  == toLowerCase(firstWord(cmd))
              echo == [cls |-> "cmd", text |-> PROMPT \o " " \o escapeHtml(cmd)]
          IN  IF cmd = << >>
              THEN terminal'.output = terminal.output /\ terminal'.history = terminal.history
              ELSE /\ ~terminal'.thrown
                   /\ terminal'.history = << cmd >> \o terminal.history
                   /\ terminal'.output =
                        (IF key = commandKeys[8] THEN << >>
                         ELSE IF key \in OwnKeys
                         THEN terminal.output \o << echo >>
                              \o [ i \in 1 .. runLength(key) |-> [cls |-> "", text |-> run(key)[i]] ]
                         ELSE terminal.output
                              \o << echo, [cls |-> "muted",
                                           text |-> "Command not found: " \o escapeHtml(key)
                                                    \o ". Type \"help\"."] >>)

\* C16: every line submitted with Enter, a word such as 'constructor' or
\* '__proto__' included, is run as described: the echo and the command's
\* canned lines, an emptied output for 'clear', the echo and 'Command not
\* found' for any other word without an error, and nothing for a blank line
C16_RunCommand == [][ terminal'.event = "Enter" => EnterAsClaimed ]_vars

\* the first word of the input, as runCommand looks it up
TypedKey == toLowerCase(firstWord(trim(terminal.value)))

\* every submitted line whose first word is not a name inherited from
\* Object.prototype behaves as described
RunCommandElsewhere ==
    [][ terminal'.event = "Enter" /\ TypedKey \notin inheritedKeys => EnterAsClaimed ]_vars

\* the input of the step is a downward one: a wheel turned down, one of the
\* keys that scroll down, or a finger moved up from where it was
DownwardInput ==
    \/ hss'.event = "wheel" /\ hss'.input[1].numeric /\ hss'.input[1].deltaY > 0
    \/ hss'.event = "keydown" /\ hss'.input[1] \in { "ArrowDown", "PageDown", " ", "Spacebar" }
    \/ hss'.event = "touchmove" /\ hss'.input # << >> /\ hss.touchY - hss'.input[1] > 0

\* C20: in normal mode isListening = not hasTriggered in every state, and the
\* four input listeners are on the window exactly while isListening; the
\* sequence is triggered only by a downward input while the section is in
\* view, and by the first such input; once triggered no wheel, key or touch
\* input changes anything, and only maybeReset on a scroll event clears
\* hasTriggered
C20_ListeningIffNotTriggered ==
    /\ [](hss.started =>
            /\ hss.isListening = ~hss.hasTriggered
            /\ IF hss.isListening THEN InputListeners \subseteq hss.listeners
               ELSE hss.listeners \cap InputListeners = {})
    /\ [][ /\ (~hss.hasTriggered /\ hss'.hasTriggered) =>
                /\ DownwardInput /\ hss.inView
                /\ hss'.listeners \cap InputListeners = {}
           /\ (hss.started /\ ~hss.hasTriggered /\ DownwardInput /\ hss.inView)
                => hss'.hasTriggered
           /\ (hss.hasTriggered /\ hss'.event \in { "wheel", "keydown", "touchstart", "touchmove" })
                => hss' = [ hss EXCEPT !.event = hss'.event, !.input = hss'.input ]
           /\ (hss.hasTriggered /\ ~hss'.hasTriggered)
                => hss'.event = "scroll" /\ hss'.scrollY <= 2 /\ hss'.inView ]_vars

\* C20 witness: the sequence was triggered, and a second downward input has
\* arrived while the listeners are removed
C20_Witness ==
    /\ hss.started /\ hss.hasTriggered /\ ~hss.isListening
    /\ hss.event = "wheel" /\ hss.input[1].deltaY > 0 /\ hss.inView
    /\ hss.listeners = { "resize", "scroll" }

\* C22 as claimed: historyIndex stays within -1 .. history.length - 1, and an
\* ArrowUp or ArrowDown press that sets the input sets it to the empty string
\* or to history[historyIndex]; ArrowUp after ArrowDown presses shows
\* history[0]
C22_HistoryNavigation ==
    /\ [](terminal.historyIndex \in (0 - 1) .. (Len(terminal.history) - 1))
    /\ [][ (terminal'.event \in { "ArrowUp", "ArrowDown" } /\ terminal.history # << >>) =>
             /\ \/ terminal'.value = << >>
                \/ /\ terminal'.historyIndex \in 0 .. Len(terminal.history) - 1
                   /\ terminal'.value = terminal.history[terminal'.historyIndex + 1]
             /\ (terminal'.event = "ArrowUp" /\ terminal.historyIndex < 0)
                  => terminal'.value = terminal.history[1] ]_vars

\* C29: in normal mode 'is-sequenced' is present only with 'is-brand-hidden'
\* and hasTriggered; at most one sequence timer is pending, exactly while
\* sequenceTimer is set, and only while triggered; 'is-sequenced' is added
\* only by the sequence timer; and a reset cancels the pending timer,
\* removes both classes and puts the four input listeners back
C29_SequencedOnlyWhenTriggered ==
    /\ [](hss.started =>
            /\ "is-sequenced" \in hss.classes
                 => ("is-brand-hidden" \in hss.classes /\ hss.hasTriggered)
            /\ hss.sequenceTimers = (IF hss.sequenceTimer # 0 THEN 1 ELSE 0)
            /\ hss.sequenceTimers > 0 => hss.hasTriggered)
    /\ [][ /\ ("is-sequenced" \notin hss.classes /\ "is-sequenced" \in hss'.classes /\ hss.started)
                => (hss'.event = "sequenceTimer" /\ hss.hasTriggered /\ hss'.hasTriggered)
           /\ (hss.hasTriggered /\ ~hss'.hasTriggered) =>
                /\ hss'.sequenceTimers = 0 /\ hss'.sequenceTimer = 0
                /\ hss'.classes \cap { "is-brand-hidden", "is-sequenced" } = {}
                /\ InputListeners \subseteq hss'.listeners /\ hss'.isListening ]_vars

\* C29 witness: the sequence timer has fired after a trigger
C29_Witness ==
    /\ hss.started /\ hss.event = "sequenceTimer" /\ hss.hasTriggered
    /\ hss.classes = { "is-brand-hidden", "is-sequenced" } /\ hss.sequenceTimers = 0

\* every lumen of the field has its progress within [0, 1]
LumensInRange(v) == \A i \in 1 .. Len(v.lumens) : v.lumens[i].progress \in 0 .. VONE

\* C21: seedLumens leaves every progress within [0, 1), and a lumen whenever
\* there are paths, after init() and after every resize; a frame whose
\* timestamp is not before the last one adds speed * min(delta, 0.05 s) to
\* every progress, takes 1 off a sum above 1, and keeps every progress
\* within [0, 1].
C21_LumenProgressInRange ==
    /\ [](/\ veins.event \in { "init", "resize" } =>
               \A i \in 1 .. Len(veins.lumens) : veins.lumens[i].progress \in 0 .. VONE - 1
          /\ Len(veins.paths) # 0 => veins.lumens # << >>)
    /\ [][ (/\ veins'.event = "frame" /\ veins'.frames = veins.frames + 1
            /\ veins'.lastTime >= veins.lastTime
            /\ LumensInRange(veins)) =>
              /\ LumensInRange(veins')
              /\ Len(veins'.lumens) = Len(veins.lumens)
              /\ \A i \in 1 .. Len(veins.lumens) :
                   \E wrap \in { 0, VONE } :
                     veins'.lumens[i].progress
                       = veins.lumens[i].progress
                           + veins.lumens[i].speed * Min(veins'.lastTime - veins.lastTime, 50)
                           - wrap ]_vars

\* the lumen seedLumens falls back to in a canvas without extent has gone
\* round once, in two frames of the capped 50 ms
C21_Witness ==
    /\ veins.event = "frame" /\ veins.isRunning
    /\ \A i \in 1 .. Len(veins.paths) : veins.paths[i].totalLength = 0
    /\ Len(veins.lumens) = 1
    /\ veins.lumens[1].speed = 13000
    /\ veins.lumens[1].progress = 999200000 + 2 * 13000 * 50 - VONE

\* C23 as claimed: isSwitching is true only while the switch timer it
\* started is pending, and 'is-switching' is on the stage exactly then.
C23_SwitchingOnlyWhileTimerPending ==
    /\ carousel.isSwitching <=> "is-switching" \in carousel.stageClasses
    /\ carousel.isSwitching =>
         \E t \in carousel.timers : t.id = carousel.switchingTimer

\* the markup the claims of the rail are about: every trigger has a key of
\* its own, and every key has one panel
RailWellFormed ==
    /\ \A i \in 1 .. Len(rail.keys) :
         /\ rail.keys[i] # ""
         /\ \A j \in 1 .. Len(rail.keys) : rail.keys[j] = rail.keys[i] => j = i
         /\ Cardinality({ p \in 1 .. Len(rail.panelKeys) : rail.panelKeys[p] = rail.keys[i] }) = 1

\* C24 as claimed, for the markup with a key and a panel for every trigger:
\* exactly one trigger has tabindex '0' and all others have '-1'.
C24_OneTabStop ==
    (rail.ready /\ RailWellFormed) =>
       /\ Cardinality({ i \in 1 .. Len(rail.keys) : rail.tabindex[i] = "0" }) = 1
       /\ \A i \in 1 .. Len(rail.keys) : rail.tabindex[i] \in { "0", "-1" }

\* the active pair of the rail: the classes, the aria attributes and activeKey
ActivePair(r) == << r.triggerActive, r.expanded, r.panelActive, r.hidden, r.activeKey >>

\* C25: with a key of its own for every trigger and one panel for every
\* key, exactly one trigger is is-active with aria-expanded 'true', exactly
\* one panel is is-active with aria-hidden 'false', and both carry
\* activeKey; in any markup a click or Enter/Space on a trigger whose key is
\* the current one, is empty or has no panel changes nothing of the active
\* pair, and neither do the arrow, Home and End keys.
C25_OneActivePair ==
    /\ []((rail.ready /\ RailWellFormed) =>
            /\ \E t \in 1 .. Len(rail.keys) :
                 /\ rail.keys[t] = rail.activeKey
                 /\ \A i \in 1 .. Len(rail.keys) :
                      /\ rail.triggerActive[i] <=> i = t
                      /\ rail.expanded[i] = (IF i = t THEN "true" ELSE "false")
            /\ \E p \in 1 .. Len(rail.panelKeys) :
                 /\ rail.panelKeys[p] = rail.activeKey
                 /\ \A i \in 1 .. Len(rail.panelKeys) :
                      /\ rail.panelActive[i] <=> i = p
                      /\ rail.hidden[i] = (IF i = p THEN "false" ELSE "true"))
    /\ [][ /\ (/\ rail.ready
               /\ \/ rail'.event = "click"
                  \/ rail'.event = "keydown" /\ rail'.input[2] \in { "Enter", " " }
               /\ \/ rail.keys[rail'.input[1]] \in { "", rail.activeKey }
                  \/ \A p \in 1 .. Len(rail.panelKeys) :
                       rail.panelKeys[p] # rail.keys[rail'.input[1]])
                => ActivePair(rail') = ActivePair(rail)
           /\ (/\ rail.ready /\ rail'.event = "keydown"
               /\ rail'.input[2] \in { "ArrowDown", "ArrowUp", "Home", "End" })
                => /\ ActivePair(rail') = ActivePair(rail)
                   /\ rail'.focused =
                        (CASE rail'.input[2] = "ArrowDown" -> (rail.focused % Len(rail.keys)) + 1
                           [] rail'.input[2] = "ArrowUp" ->
                                ((rail.focused - 2 + Len(rail.keys)) % Len(rail.keys)) + 1
                           [] rail'.input[2] = "Home" -> 1
                           [] rail'.input[2] = "End" -> Len(rail.keys)) ]_vars

\* a click has moved the active pair from the first trigger and panel to
\* the third, and an arrow key has then moved the focus off it
C25_Witness ==
    /\ rail.ready /\ RailWellFormed /\ Len(rail.keys) = 3
    /\ rail.activeKey = "c" /\ rail.triggerActive[3] /\ ~rail.triggerActive[1]
    /\ rail.event = "keydown" /\ rail.input[2] = "ArrowDown" /\ rail.focused # 3

\* C26 as claimed: init() is never invoked a second time, the first call
\* throwing included, and never while the promise of the loader is pending;
\* once boot() and its reactions are through, it has been invoked once.
C26_InitExactlyOnce ==
    /\ startup.initCalls <= 1
    /\ ~startup.initDuringLoader
    /\ (startup.booted /\ startup.catchPromise # "pending") => startup.initCalls = 1

\* C27: once the metadata is ready exactly one of the two videos is
\* visible, the one state.active names, and the other is hidden and paused;
\* active is 'reverse' only with reverseReady; appliedDirection 'forward'
\* has active 'forward', appliedDirection 'reverse' with reverseReady has
\* active 'reverse'; with the header out of view appliedDirection is
\* 'paused' and both videos are paused.
C27_OneVideoVisible ==
    hero.metadataReady =>
      /\ hero.video.visible <=> hero.state.active = "forward"
      /\ hero.reverseVideo.visible <=> hero.state.active = "reverse"
      /\ hero.state.active \in { "forward", "reverse" }
      /\ hero.state.active = "forward" => ~hero.reverseVideo.playing
      /\ hero.state.active = "reverse" => ~hero.video.playing
      /\ hero.state.active = "reverse" => hero.state.reverseReady
      /\ hero.state.appliedDirection = "forward" => hero.state.active = "forward"
      /\ (hero.state.appliedDirection = "reverse" /\ hero.state.reverseReady)
           => hero.state.active = "reverse"
      /\ ~hero.state.inView =>
           /\ hero.state.appliedDirection = "paused"
           /\ ~hero.video.playing /\ ~hero.reverseVideo.playing

\* the reverse video was playing when the observer reported the header out
\* of view
C27_Witness ==
    /\ hero.metadataReady /\ hero.event = "visibility" /\ ~hero.state.inView
    /\ hero.state.active = "reverse" /\ hero.reverseVideo.visible
    /\ hero.state.desiredDirection = "reverse" /\ hero.reverseVideo.currentTime > 0

\* playback is paused and the tick loop has stopped
HeroStopped ==
    /\ hero.state.appliedDirection = "paused"
    /\ ~hero.video.playing /\ ~hero.reverseVideo.playing
    /\ hero.state.rafId = NULL /\ hero.pendingTicks = 0

\* C28: at most one tick is pending, and rafId holds it; a scroll of two
\* pixels or more sets the desired direction by its sign and a smaller one
\* leaves it; a tick with the header in view within IDLE_DELAY of the last
\* input applies the desired direction and requests the next tick; and with
\* frames firing, more than IDLE_DELAY after the last input playback is
\* paused and the loop stopped before long, unless a new input arrives.
C28_IdlePausesAndStops ==
    /\ [](/\ hero.pendingTicks <= 1
          /\ hero.state.rafId = NULL <=> hero.pendingTicks = 0)
    /\ [][ /\ (hero'.event = "scroll" /\ "scroll" \in hero.listeners) =>
                hero'.state.desiredDirection =
                  (IF Abs(hero'.input[1] - hero.state.lastScrollY) < 2
                   THEN hero.state.desiredDirection
                   ELSE IF hero'.input[1] > hero.state.lastScrollY THEN "forward" ELSE "reverse")
           /\ (hero'.event = "tick" /\ hero.state.inView /\ hero.elapsed <= 140) =>
                /\ hero'.state.appliedDirection = hero.state.desiredDirection
                /\ hero'.state.rafId # NULL /\ hero'.pendingTicks = 1 ]_vars
    /\ (hero.metadataReady /\ hero.elapsed > 140) ~> (HeroStopped \/ hero.elapsed <= 140)

\* the reverse video was playing when the scrolling stopped; the tick after
\* IDLE_DELAY has paused it and requested no further frame
C28_Witness ==
    /\ hero.event = "tick" /\ hero.elapsed > IDLE_DELAY /\ hero.state.inView
    /\ HeroStopped
    /\ hero.state.desiredDirection = "reverse" /\ hero.state.active = "reverse"
    /\ hero.reverseVideo.currentTime > 0

====
